---------------------------- MODULE Spec2Model ----------------------------
(***************************************************************************)
(* Thermodynamic cycle solvers of Dina73/Mechanical-Cycles.                *)
(*                                                                         *)
(* Each page is a form of number widgets and a button.  The state is the   *)
(* page that is open (app), the values held by its widgets (inp) and the   *)
(* outcome of the last press of the button (out): the sequence of writes   *)
(* the solver made to its result dictionary and what came back to the      *)
(* handler (a dictionary, None, a warning, or an exception that escapes).  *)
(* A press converts the widget values to the solver's arguments exactly as *)
(* the handler does (Args) and runs the whole solver.  The body of each    *)
(* solver is written statement by statement as a sequence of terms         *)
(* (Assign, Write, Update, If, Try, Return) which Exec runs the way Python *)
(* does, exceptions and unbound locals included.                           *)
(*                                                                         *)
(* Arithmetic: Python floats are modelled as exact rationals.  x ** (p/q)  *)
(* is computed exactly when x is a perfect q-th power of a rational whose  *)
(* root lies within MaxBase; any other argument makes the solve            *)
(* "unrepresentable" and the model does not take that solve step.  The     *)
(* input domains avoid the values where exact and rounded arithmetic       *)
(* disagree on a comparison with zero.  k and cp keep their defaults.      *)
(* The Otto solver is also run in decimal arithmetic, which encloses the   *)
(* float of every metric between two decimals for any positive input       *)
(* (SpecOttoDecimal).  prev keeps one earlier solve of the page, for the   *)
(* comparison of two invocations (SpecRepeat).  The nested call of the     *)
(* Diesel solver of mechanical_cycles.py is also run call by call on       *)
(* binary64 magnitudes, where a quotient can round to 0.0                  *)
(* (SpecMcDieselFloat).                                                    *)
(* The Rankine page (CoolProp property tables) is not modelled.            *)
(***************************************************************************)
EXTENDS Integers, Sequences, FiniteSets, TLC

\* Largest integer whose 5th / 7th power is used as an input or found as a root.
MaxBase == 3

---------------------------------------------------------------------------
(* Values: None, a rational number, a string, a truth value, a raised      *)
(* exception, or a number the model cannot represent ("nan": irrational,   *)
(* or too large).                                                          *)

NoneV == [t |-> "none", n |-> 0, d |-> 1, s |-> ""]
StrV(str) == [t |-> "str", n |-> 0, d |-> 1, s |-> str]
Exc(name) == [t |-> "exc", n |-> 0, d |-> 1, s |-> name]
NanV == [t |-> "nan", n |-> 0, d |-> 1, s |-> ""]
BoolV(b) == [t |-> "bool", n |-> IF b THEN 1 ELSE 0, d |-> 1, s |-> ""]

Abs(i) == IF i < 0 THEN -i ELSE i

RECURSIVE GCD(_, _)
GCD(a, b) == IF b = 0 THEN a ELSE GCD(b, a % b)

\* The rational n/d in lowest terms with a positive denominator (d # 0).
Num(n, d) ==
    LET g == GCD(Abs(n), Abs(d))
        sg == IF d < 0 THEN -1 ELSE 1
    IN [t |-> "num", n |-> sg * (n \div g), d |-> sg * (d \div g), s |-> ""]

I(i) == Num(i, 1)

IsNone(a) == a.t = "none"
IsZero(a) == a.t = "num" /\ a.n = 0
\* Python truthiness: None, 0.0 and False are falsy.
Truthy(a) == a.t = "str" \/ (a.t \in {"num", "bool"} /\ a.n # 0)

\* Operand handling shared by the binary operators: an exception raised while
\* evaluating an operand propagates (left operand first); arithmetic on None
\* raises TypeError.
Lift(a, b, r) ==
    IF a.t = "exc" THEN a
    ELSE IF b.t = "exc" THEN b
    ELSE IF a.t \in {"none", "str"} \/ b.t \in {"none", "str"} THEN Exc("TypeError")
    ELSE IF a.t = "nan" \/ b.t = "nan" THEN NanV
    ELSE r

\* Numerators and denominators stay below Limit: a product or sum that would
\* pass it is not representable in the model.
Limit == 10^9
Fits(x, y) == x = 0 \/ y = 0 \/ Abs(x) <= Limit \div Abs(y)

\* Products and sums are reduced before multiplying, as floats do not overflow
\* where the exact result is small.
MulNum(a, b) ==
    LET g1 == GCD(Abs(a.n), b.d)
        g2 == GCD(Abs(b.n), a.d)
    IN IF Fits(a.n \div g1, b.n \div g2) /\ Fits(a.d \div g2, b.d \div g1)
       THEN Num((a.n \div g1) * (b.n \div g2), (a.d \div g2) * (b.d \div g1))
       ELSE NanV
AddNum(a, b) ==
    LET g == GCD(a.d, b.d)
    IN IF Fits(a.n, b.d \div g) /\ Fits(b.n, a.d \div g) /\ Fits(a.d \div g, b.d)
       THEN Num(a.n * (b.d \div g) + b.n * (a.d \div g), (a.d \div g) * b.d)
       ELSE NanV

Add(a, b) == Lift(a, b, AddNum(a, b))
Sub(a, b) == Lift(a, b, AddNum(a, [b EXCEPT !.n = -b.n]))
Mul(a, b) == Lift(a, b, MulNum(a, b))
\* Float division: a zero divisor raises ZeroDivisionError.
Div(a, b) ==
    IF a.t = "exc" THEN a
    ELSE IF b.t = "exc" THEN b
    ELSE IF a.t \in {"none", "str"} \/ b.t \in {"none", "str"} THEN Exc("TypeError")
    ELSE IF IsZero(b) THEN Exc("ZeroDivisionError")
    ELSE IF a.t = "nan" \/ b.t = "nan" THEN NanV
    ELSE MulNum(a, Num(b.d, b.n))

\* The integer q-th root of i when i is a perfect q-th power of 0..MaxBase, else -1.
Root(i, q) ==
    IF \E a \in 0..MaxBase : a^q = i
    THEN CHOOSE a \in 0..MaxBase : a^q = i
    ELSE -1

\* Python float power x ** (p/q), p an integer (possibly negative), q > 0.
PowQ(x, p, q) ==
    IF x.t = "exc" THEN x
    ELSE IF x.t \in {"none", "str"} THEN Exc("TypeError")
    ELSE IF x.t = "nan" THEN NanV
    ELSE IF x.n < 0 THEN NanV
    ELSE IF x.n = 0 THEN (IF p < 0 THEN Exc("ZeroDivisionError")
                          ELSE IF p = 0 THEN I(1) ELSE I(0))
    ELSE LET rn == Root(x.n, q)
             rd == Root(x.d, q)
         IN IF rn < 0 \/ rd < 0 THEN NanV
            ELSE IF p >= 0 THEN Num(rn^p, rd^p)
            ELSE Num(rd^(-p), rn^(-p))


---------------------------------------------------------------------------
(* Property constants of air: k = 1.4 = kNum/kDen, R, cv, cp.              *)

kNum == 7
kDen == 5
R == Num(2871, 10000)
cv == Num(359, 500)
cp == Num(201, 200)


---------------------------------------------------------------------------
(* Expressions of the solvers, as terms.  Eval computes a term in an       *)
(* environment of local variables the way Python does: operands left to    *)
(* right, an exception raised by an operand propagates, `and`, `or` and    *)
(* the conditional expression evaluate only the operands they need.        *)

C(val) == [e |-> "const", v |-> val]
Lit(i) == C(I(i))
V(name) == [e |-> "var", x |-> name]
AddE(l, r) == [e |-> "add", l |-> l, r |-> r]
SubE(l, r) == [e |-> "sub", l |-> l, r |-> r]
MulE(l, r) == [e |-> "mul", l |-> l, r |-> r]
DivE(l, r) == [e |-> "div", l |-> l, r |-> r]
NeE(l, r) == [e |-> "ne", l |-> l, r |-> r]                     \* l != r
EqE(l, r) == [e |-> "eq", l |-> l, r |-> r]                     \* l == r
GtE(l, r) == [e |-> "gt", l |-> l, r |-> r]                     \* l > r
AndE(l, r) == [e |-> "and", l |-> l, r |-> r]
OrE(l, r) == [e |-> "or", l |-> l, r |-> r]
And3(a, b, c) == AndE(a, AndE(b, c))
IsNoneE(x) == [e |-> "isnone", l |-> x]          \* x is None
NotNoneE(x) == [e |-> "notnone", l |-> x]        \* x is not None
\* x not in (None, 0)
NotNoneOrZeroE(x) == AndE(NotNoneE(x), NeE(x, Lit(0)))
IfE(c, l, r) == [e |-> "if", c |-> c, l |-> l, r |-> r]   \* l if c else r
PowE(x, p, q) == [e |-> "pow", l |-> x, p |-> p, q |-> q] \* x ** (p/q)
PowKm1E(x) == PowE(x, kNum - kDen, kDen)         \* x ** (k - 1)
PowKE(x) == PowE(x, kNum, kDen)                  \* x ** k
PowKm1OverKE(x) == PowE(x, kNum - kDen, kNum)    \* x ** ((k - 1) / k)

\* A value that ends the evaluation of the enclosing expression.
Stops(v) == v.t \in {"exc", "nan"}

\* l > r on floats; an ordering comparison with None raises TypeError.
Gt(l, r) ==
    IF Sub(l, r).t = "num" THEN BoolV(Sub(l, r).n > 0) ELSE Sub(l, r)

\* l == r and l != r (ne) never raise; on a number the model cannot
\* represent the outcome is not known.
Same(l, r, ne) ==
    IF l.t = "exc" THEN l
    ELSE IF r.t = "exc" THEN r
    ELSE IF l.t = "nan" \/ r.t = "nan" THEN NanV
    ELSE BoolV((l = r) # ne)

\* x is None (isnot: x is not None).
NoneTest(v, isnot) == IF v.t = "exc" THEN v ELSE BoolV((v.t = "none") # isnot)

Apply(op, l, r) ==
    CASE op = "add" -> Add(l, r)
      [] op = "sub" -> Sub(l, r)
      [] op = "mul" -> Mul(l, r)
      [] op = "div" -> Div(l, r)
      [] op = "gt" -> Gt(l, r)
      [] op = "eq" -> Same(l, r, FALSE)
      [] op = "ne" -> Same(l, r, TRUE)

\* `l and r` / `l or r`: r counts only when l does not decide.
Short(op, lv, rv) ==
    IF Stops(lv) THEN lv
    ELSE IF op = "and" /\ ~Truthy(lv) THEN BoolV(FALSE)
    ELSE IF op = "or" /\ Truthy(lv) THEN BoolV(TRUE)
    ELSE IF Stops(rv) THEN rv
    ELSE BoolV(Truthy(rv))

\* `l if c else r`.
Pick(cond, lv, rv) ==
    IF Stops(cond) THEN cond ELSE IF Truthy(cond) THEN lv ELSE rv

RECURSIVE Eval(_, _)
Eval(x, env) ==
    CASE x.e = "const" -> x.v
      [] x.e = "var" -> IF x.x \in DOMAIN env THEN env[x.x] ELSE Exc("UnboundLocalError")
      [] x.e \in {"add", "sub", "mul", "div", "gt", "eq", "ne"} ->
            Apply(x.e, Eval(x.l, env), Eval(x.r, env))
      [] x.e \in {"and", "or"} -> Short(x.e, Eval(x.l, env), Eval(x.r, env))
      [] x.e = "isnone" -> NoneTest(Eval(x.l, env), FALSE)
      [] x.e = "notnone" -> NoneTest(Eval(x.l, env), TRUE)
      [] x.e = "if" -> Pick(Eval(x.c, env), Eval(x.l, env), Eval(x.r, env))
      [] x.e = "pow" -> PowQ(Eval(x.l, env), x.p, x.q)

---------------------------------------------------------------------------
(* Statements.  A run carries the local variables (env), the sequence of   *)
(* writes made to the results dictionary (log), the exception in flight    *)
(* (exc), the exception an except clause caught (caught) and the return    *)
(* statement that ended the run (ret).  nan marks a run that met a number  *)
(* the model cannot represent.                                             *)

Assign(x, e) == [s |-> "assign", x |-> x, e |-> e]              \* x = e
Write(k, e) == [s |-> "write", k |-> k, e |-> e]                \* results[k] = e
Update(kv) == [s |-> "update", kv |-> kv]                       \* results.update({k: e, ...})
If(c, t, f) == [s |-> "if", c |-> c, t |-> t, f |-> f]          \* if c: t else: f
Try(b, h) == [s |-> "try", b |-> b, h |-> h]                    \* try: b except Exception: h
Return(what) == [s |-> "return", what |-> what]                 \* return ...

W(key, val) == [k |-> key, v |-> val]
Started(env) ==
    [env |-> env, log |-> <<>>, exc |-> "", caught |-> "", ret |-> "", nan |-> FALSE]
Fault(st, v) == IF v.t = "exc" THEN [st EXCEPT !.exc = v.s] ELSE [st EXCEPT !.nan = TRUE]
Store(st, x, v) ==
    IF Stops(v) THEN Fault(st, v)
    ELSE [st EXCEPT !.env = [n \in DOMAIN @ \cup {x} |-> IF n = x THEN v ELSE @[n]]]
Put(st, k, v) == IF Stops(v) THEN Fault(st, v) ELSE [st EXCEPT !.log = Append(@, W(k, v))]
\* The dictionary literal is built first, left to right; then every item is written.
PutAll(st, kv, vals) ==
    IF \E i \in DOMAIN vals : Stops(vals[i])
    THEN Fault(st, vals[CHOOSE i \in DOMAIN vals :
                           Stops(vals[i]) /\ \A j \in 1..(i - 1) : ~Stops(vals[j])])
    ELSE [st EXCEPT !.log = @ \o [i \in DOMAIN vals |-> W(kv[i][1], vals[i])]]

RECURSIVE Exec(_, _)
RECURSIVE Step(_, _)
RECURSIVE Branch(_, _, _)
RECURSIVE Caught(_, _)

Branch(s, st, cond) ==
    IF Stops(cond) THEN Fault(st, cond) ELSE Exec(IF Truthy(cond) THEN s.t ELSE s.f, st)

Caught(s, r) ==
    IF r.exc # "" /\ ~r.nan THEN Exec(s.h, [r EXCEPT !.exc = "", !.caught = r.exc]) ELSE r

Step(s, st) ==
    CASE s.s = "assign" -> Store(st, s.x, Eval(s.e, st.env))
      [] s.s = "write" -> Put(st, s.k, Eval(s.e, st.env))
      [] s.s = "update" -> PutAll(st, s.kv, [i \in DOMAIN s.kv |-> Eval(s.kv[i][2], st.env)])
      [] s.s = "if" -> Branch(s, st, Eval(s.c, st.env))
      [] s.s = "try" -> Caught(s, Exec(s.b, st))
      [] s.s = "return" -> [st EXCEPT !.ret = s.what]

Exec(stmts, st) ==
    IF Len(stmts) = 0 \/ st.exc # "" \/ st.ret # "" \/ st.nan THEN st
    ELSE Exec(Tail(stmts), Step(Head(stmts), st))

Keys(log) == {log[i].k : i \in 1..Len(log)}
\* The dictionary a sequence of writes leaves behind: each key holds the
\* value of its last write.
DictOf(log) ==
    [key \in Keys(log) |->
        log[CHOOSE i \in 1..Len(log) :
                /\ log[i].k = key
                /\ \A j \in (i + 1)..Len(log) : log[j].k # key].v]
EmptyDict == [key \in {} |-> NoneV]

\* What a call hands back: kind "dict" (d is the returned dictionary), "None",
\* "raise" (exc escapes to the caller), "unrep" (not representable in the
\* model's arithmetic) or "pending" (no solve has run).  log is the sequence
\* of writes made to the results object during the call; br lists the branch
\* each (nested) call entered, outermost first.
Returned(dict, log, br) == [kind |-> "dict", d |-> dict, log |-> log, exc |-> "", br |-> br]
Raised(name, log, br) == [kind |-> "raise", d |-> EmptyDict, log |-> log, exc |-> name, br |-> br]
Unrep == [kind |-> "unrep", d |-> EmptyDict, log |-> <<>>, exc |-> "", br |-> <<>>]
Pending == [kind |-> "pending", d |-> EmptyDict, log |-> <<>>, exc |-> "", br |-> <<>>]
ErrorDict(msg) == [key \in {"Error"} |-> StrV(msg)]

---------------------------------------------------------------------------
(* diesel.py: solve_diesel_cycle                                           *)

\* Lines 3, 20-24: the parameters and the locals set before the try block.
DieselEnv(a) ==
    [r |-> a.r, V1_input |-> a.V1, P1 |-> a.P1, T1 |-> a.T1, Qin |-> a.Qin,
     P3 |-> a.P3, T3 |-> a.T3, R |-> R, cv |-> cv, cp |-> cp, m |-> NoneV]

\* Lines 27-50: V1 conversion, state 1 specific volume and mass.
DieselState1 ==
    <<Assign("V1_total_m3", C(NoneV)),
      Assign("v1_specific_m3_per_kg", C(NoneV)),
      If(NotNoneE(V("V1_input")),
         <<Assign("V1_total_m3", DivE(V("V1_input"), Lit(1000)))>>, <<>>),
      If(AndE(NotNoneE(V("P1")), NotNoneE(V("T1"))),
         <<Assign("v1_specific_m3_per_kg", DivE(MulE(V("R"), V("T1")), V("P1"))),
           Write("v1 [L/kg]", MulE(V("v1_specific_m3_per_kg"), Lit(1000))),
           If(NotNoneE(V("V1_total_m3")),
              <<Assign("m", DivE(V("V1_total_m3"), V("v1_specific_m3_per_kg"))),
                Write("Calculated Mass [kg]", V("m")),
                Write("Total Volume V1 [L]", V("V1_input"))>>, <<>>)>>,
         <<If(AndE(NotNoneE(V("V1_total_m3")), OrE(IsNoneE(V("P1")), IsNoneE(V("T1")))),
              <<Assign("v1_specific_m3_per_kg", V("V1_total_m3")),
                Write("Note: V1 treated as specific volume [L/kg]", V("V1_input")),
                Write("v1 [L/kg]", V("V1_input"))>>, <<>>)>>)>>

\* Lines 94-102, 135-143: heat, work and efficiency of scenarios 1 and 2.
DieselHeatWork ==
    <<Assign("q_in_specific", MulE(V("cp"), SubE(V("T3"), V("T2")))),
      Assign("q_out_specific", MulE(V("cv"), SubE(V("T4"), V("T1")))),
      Assign("w_net_specific", SubE(V("q_in_specific"), V("q_out_specific"))),
      Assign("eff", IfE(NeE(V("q_in_specific"), Lit(0)),
                        DivE(V("w_net_specific"), V("q_in_specific")), Lit(0))),
      Write("Heat Added Q_in [kJ/kg]", V("q_in_specific")),
      Write("Heat Rejected Q_out [kJ/kg]", V("q_out_specific")),
      Write("Net Work [kJ/kg]", V("w_net_specific")),
      Write("Efficiency [%]", MulE(V("eff"), Lit(100)))>>

\* Lines 105-110: totals of scenario 1 (no Total Volume V1 here).
DieselTotals1 ==
    <<If(NotNoneE(V("m")),
         <<Write("Total Volume V2 [L]", MulE(MulE(V("v2_specific"), V("m")), Lit(1000))),
           Write("Total Volume V3 [L]", MulE(MulE(V("v3_specific"), V("m")), Lit(1000))),
           Write("Total Net Work [kJ]", MulE(V("w_net_specific"), V("m"))),
           Write("Total Heat Added Q_in [kJ]", MulE(V("q_in_specific"), V("m"))),
           Write("Total Heat Rejected Q_out [kJ]", MulE(V("q_out_specific"), V("m")))>>,
         <<>>)>>

\* Lines 53-110: scenario 1, r, T1, T3 known.
DieselScenario1 ==
    <<Assign("T2", MulE(V("T1"), PowKm1E(V("r")))),
      Write("T2 [K]", V("T2")),
      Assign("P2_calc", C(NoneV)),
      If(NotNoneE(V("P1")),
         <<Assign("P2_calc", MulE(V("P1"), PowKE(V("r")))),
           Write("P2 [kPa]", V("P2_calc")),
           Write("P3 [kPa]", V("P2_calc"))>>,
         <<If(NotNoneE(V("P3")),
              <<Assign("P2_calc", V("P3")),
                Write("P2 [kPa]", V("P2_calc"))>>, <<>>)>>),
      If(NotNoneE(V("v1_specific_m3_per_kg")),
         <<Assign("v2_specific", DivE(V("v1_specific_m3_per_kg"), V("r"))),
           Write("v2 [L/kg]", MulE(V("v2_specific"), Lit(1000))),
           Assign("v3_specific", C(NoneV)),
           If(NotNoneE(V("P2_calc")),
              <<Assign("v3_specific", DivE(MulE(V("R"), V("T3")), V("P2_calc"))),
                Write("v3 [L/kg]", MulE(V("v3_specific"), Lit(1000)))>>,
              <<If(NotNoneE(V("P3")),
                   <<Assign("v3_specific", DivE(MulE(V("R"), V("T3")), V("P3"))),
                     Write("v3 [L/kg]", MulE(V("v3_specific"), Lit(1000)))>>, <<>>)>>),
           If(And3(NotNoneE(V("v2_specific")), NotNoneE(V("v3_specific")),
                   NeE(V("v2_specific"), Lit(0))),
              <<Assign("rc", DivE(V("v3_specific"), V("v2_specific"))),
                Write("Cutoff Ratio (rc)", V("rc")),
                Assign("T4", MulE(V("T3"),
                    PowKm1E(DivE(V("v3_specific"), V("v1_specific_m3_per_kg"))))),
                Write("T4 [K]", V("T4")),
                Assign("P4", MulE(IfE(NotNoneE(V("P2_calc")), V("P2_calc"), V("P3")),
                    PowKE(DivE(V("v3_specific"), V("v1_specific_m3_per_kg"))))),
                Write("P4 [kPa]", V("P4"))>>
              \o DieselHeatWork \o DieselTotals1,
              <<>>)>>,
         <<>>)>>

\* Lines 146-152 and 185-191: totals of scenarios 2 and 3.
DieselTotals23 ==
    <<If(NotNoneE(V("m")),
         <<Write("Total Volume V1 [L]",
                 MulE(MulE(V("v1_specific_m3_per_kg"), V("m")), Lit(1000))),
           Write("Total Volume V2 [L]", MulE(MulE(V("v2_specific"), V("m")), Lit(1000))),
           Write("Total Volume V3 [L]", MulE(MulE(V("v3_specific"), V("m")), Lit(1000))),
           Write("Total Net Work [kJ]", MulE(V("w_net_specific"), V("m"))),
           Write("Total Heat Added Q_in [kJ]", MulE(V("q_in_specific"), V("m"))),
           Write("Total Heat Rejected Q_out [kJ]", MulE(V("q_out_specific"), V("m")))>>,
         <<>>)>>

\* A variant of scenario 2 that replays scenario 1 with the inferred ratio
\* and then reports T1 as T2.
DieselScenario2_T2Unchanged ==
    <<Assign("r", PowE(DivE(V("P3"), V("P1")), kDen, kNum)),
      Write("Estimated Compression Ratio (r)", V("r"))>>
    \o DieselScenario1 \o <<Write("T2 [K]", V("T1"))>>

\* Lines 113-152: scenario 2, P3, T3, P1, T1 known; r is inferred.
DieselScenario2 ==
    <<Assign("r", PowE(DivE(V("P3"), V("P1")), kDen, kNum)),
      Write("Estimated Compression Ratio (r)", V("r")),
      Assign("T2", MulE(V("T1"), PowKm1E(V("r")))),
      Write("T2 [K]", V("T2")),
      Write("P2 [kPa]", V("P3")),
      Assign("v1_specific_m3_per_kg", DivE(MulE(V("R"), V("T1")), V("P1"))),
      Assign("v2_specific", DivE(V("v1_specific_m3_per_kg"), V("r"))),
      Assign("v3_specific", DivE(MulE(V("R"), V("T3")), V("P3"))),
      Assign("rc", DivE(V("v3_specific"), V("v2_specific"))),
      Write("v1 [L/kg]", MulE(V("v1_specific_m3_per_kg"), Lit(1000))),
      Write("v2 [L/kg]", MulE(V("v2_specific"), Lit(1000))),
      Write("v3 [L/kg]", MulE(V("v3_specific"), Lit(1000))),
      Write("Cutoff Ratio (rc)", V("rc")),
      Assign("T4", MulE(V("T3"),
          PowKm1E(DivE(V("v3_specific"), V("v1_specific_m3_per_kg"))))),
      Assign("P4", MulE(V("P3"),
          PowKE(DivE(V("v3_specific"), V("v1_specific_m3_per_kg"))))),
      Write("T4 [K]", V("T4")),
      Write("P4 [kPa]", V("P4"))>>
    \o DieselHeatWork \o DieselTotals23

\* Lines 155-191: scenario 3, Qin, r, P1, T1 known.  Line 190 reads
\* q_in_specific, which this scenario never assigns.
DieselScenario3 ==
    <<Assign("v1_specific_m3_per_kg", DivE(MulE(V("R"), V("T1")), V("P1"))),
      Assign("v2_specific", DivE(V("v1_specific_m3_per_kg"), V("r"))),
      Assign("T2", MulE(V("T1"), PowKm1E(V("r")))),
      Assign("P2", MulE(V("P1"), PowKE(V("r")))),
      Assign("P3_calc", V("P2")),
      Assign("T3", AddE(V("T2"), DivE(V("Qin"), V("cp")))),
      Assign("v3_specific", DivE(MulE(V("R"), V("T3")), V("P3_calc"))),
      Assign("rc", DivE(V("v3_specific"), V("v2_specific"))),
      Assign("T4", MulE(V("T3"),
          PowKm1E(DivE(V("v3_specific"), V("v1_specific_m3_per_kg"))))),
      Assign("P4", MulE(V("P3_calc"),
          PowKE(DivE(V("v3_specific"), V("v1_specific_m3_per_kg"))))),
      Assign("q_out_specific", MulE(V("cv"), SubE(V("T4"), V("T1")))),
      Assign("w_net_specific", SubE(V("Qin"), V("q_out_specific"))),
      Assign("eff", IfE(NeE(V("Qin"), Lit(0)), DivE(V("w_net_specific"), V("Qin")), Lit(0))),
      Write("T2 [K]", V("T2")),
      Write("P2 [kPa]", V("P2")),
      Write("T3 [K]", V("T3")),
      Write("P3 [kPa]", V("P3_calc")),
      Write("v1 [L/kg]", MulE(V("v1_specific_m3_per_kg"), Lit(1000))),
      Write("v2 [L/kg]", MulE(V("v2_specific"), Lit(1000))),
      Write("v3 [L/kg]", MulE(V("v3_specific"), Lit(1000))),
      Write("Cutoff Ratio (rc)", V("rc")),
      Write("T4 [K]", V("T4")),
      Write("P4 [kPa]", V("P4")),
      Write("Heat Rejected Q_out [kJ/kg]", V("q_out_specific")),
      Write("Net Work [kJ/kg]", V("w_net_specific")),
      Write("Efficiency [%]", MulE(V("eff"), Lit(100)))>>
    \o DieselTotals23

\* A variant of DieselBranch that tests the scenario 2 condition first.
DieselBranch_PressureFirst(a) ==
    IF ~IsNone(a.P3) /\ ~IsNone(a.T3) /\ ~IsNone(a.P1) /\ ~IsNone(a.T1) THEN 2
    ELSE IF ~IsNone(a.r) /\ ~IsNone(a.T1) /\ ~IsNone(a.T3) THEN 1
    ELSE IF ~IsNone(a.Qin) /\ ~IsNone(a.r) /\ ~IsNone(a.P1) /\ ~IsNone(a.T1) THEN 3
    ELSE 0

\* Lines 53, 113, 155: which scenario the if / elif chain enters (0: none).
DieselBranch(a) ==
    IF ~IsNone(a.r) /\ ~IsNone(a.T1) /\ ~IsNone(a.T3) THEN 1
    ELSE IF ~IsNone(a.P3) /\ ~IsNone(a.T3) /\ ~IsNone(a.P1) /\ ~IsNone(a.T1) THEN 2
    ELSE IF ~IsNone(a.Qin) /\ ~IsNone(a.r) /\ ~IsNone(a.P1) /\ ~IsNone(a.T1) THEN 3
    ELSE 0

\* Lines 26-196: the try block with the scenario b entered, and its except clause.
DieselStmts(b) ==
    <<Try(DieselState1
          \o (CASE b = 1 -> DieselScenario1
                [] b = 2 -> DieselScenario2
                [] b = 3 -> DieselScenario3
                [] OTHER -> <<>>)
          \o <<Return("results if results else None")>>,
          <<Return("{Error: str(e)}")>>)>>

\* Lines 193 and 196: what the return statement that ended the run hands back.
DieselReturn_KeepsPartial(st, br) ==
    IF st.nan THEN Unrep
    ELSE IF st.ret = "{Error: str(e)}"
    THEN Returned(DictOf(Append(st.log, W("Error", StrV(st.caught)))), st.log, br)
    ELSE IF st.log # <<>> THEN Returned(DictOf(st.log), st.log, br)
    ELSE [kind |-> "None", d |-> EmptyDict, log |-> st.log, exc |-> "", br |-> br]
DieselReturn(st, br) ==
    IF st.nan THEN Unrep
    ELSE IF st.ret = "{Error: str(e)}" THEN Returned(ErrorDict(st.caught), st.log, br)
    ELSE IF st.log # <<>> THEN Returned(DictOf(st.log), st.log, br)
    ELSE [kind |-> "None", d |-> EmptyDict, log |-> st.log, exc |-> "", br |-> br]

solve_diesel_cycle(a) ==
    DieselReturn(Exec(DieselStmts(DieselBranch(a)), Started(DieselEnv(a))),
                 <<DieselBranch(a)>>)

---------------------------------------------------------------------------
(* mechanical_cycles.py: diesel_cycle_app.solve_diesel_cycle               *)

\* Lines 101-104: the parameters and the constants.
McDieselEnv(a) ==
    [r |-> a.r, V1_L |-> a.V1, P1 |-> a.P1, T1 |-> a.T1, Qin |-> a.Qin,
     P3 |-> a.P3, T3 |-> a.T3, R |-> R, cv |-> cv, cp |-> cp]

\* Lines 110, 133, 137: the if / elif chain, on truthiness (0: none).
McDieselBranch(a) ==
    IF Truthy(a.r) /\ Truthy(a.T1) /\ Truthy(a.T3) THEN 1
    ELSE IF Truthy(a.P3) /\ Truthy(a.T3) /\ Truthy(a.P1) /\ Truthy(a.T1) THEN 2
    ELSE IF Truthy(a.Qin) /\ Truthy(a.r) /\ Truthy(a.P1) /\ Truthy(a.T1) THEN 3
    ELSE 0

\* Lines 108-109.
McDieselV1 ==
    <<Assign("V1_m3", IfE(V("V1_L"), DivE(V("V1_L"), Lit(1000)), C(NoneV))),
      Assign("v1", IfE(AndE(V("T1"), V("P1")),
                       DivE(MulE(V("R"), V("T1")), V("P1")), V("V1_m3")))>>

\* A variant of McDieselDirect without line 113: P3 stays as supplied.
McDieselDirect_P3AsSupplied ==
    <<Assign("T2", MulE(V("T1"), PowKm1E(V("r")))),
      Assign("P2", IfE(V("P1"), MulE(V("P1"), PowKE(V("r"))), V("P3"))),
      Assign("v2", DivE(V("v1"), V("r"))),
      Assign("v3", DivE(MulE(V("R"), V("T3")), V("P3"))),
      Assign("rc", DivE(V("v3"), V("v2"))),
      Assign("T4", MulE(V("T3"), PowKm1E(DivE(V("v3"), V("v1"))))),
      Assign("P4", MulE(V("P3"), PowKE(DivE(V("v3"), V("v1"))))),
      Assign("q_in", MulE(V("cp"), SubE(V("T3"), V("T2")))),
      Assign("q_out", MulE(V("cv"), SubE(V("T4"), V("T1")))),
      Assign("w_net", SubE(V("q_in"), V("q_out"))),
      Assign("eff", IfE(V("q_in"), DivE(V("w_net"), V("q_in")), Lit(0))),
      Update(<<<<"T2 [K]", V("T2")>>, <<"T3 [K]", V("T3")>>, <<"T4 [K]", V("T4")>>,
               <<"P2 [kPa]", V("P2")>>, <<"P3 [kPa]", V("P3")>>, <<"P4 [kPa]", V("P4")>>,
               <<"Heat Added [kJ/kg]", V("q_in")>>, <<"Heat Rejected [kJ/kg]", V("q_out")>>,
               <<"Net Work [kJ/kg]", V("w_net")>>,
               <<"Efficiency [%]", MulE(V("eff"), Lit(100))>>>>)>>
\* Lines 111-131: direct-state branch.
McDieselDirect ==
    <<Assign("T2", MulE(V("T1"), PowKm1E(V("r")))),
      Assign("P2", IfE(V("P1"), MulE(V("P1"), PowKE(V("r"))), V("P3"))),
      Assign("P3", V("P2")),
      Assign("v2", DivE(V("v1"), V("r"))),
      Assign("v3", DivE(MulE(V("R"), V("T3")), V("P3"))),
      Assign("rc", DivE(V("v3"), V("v2"))),
      Assign("T4", MulE(V("T3"), PowKm1E(DivE(V("v3"), V("v1"))))),
      Assign("P4", MulE(V("P3"), PowKE(DivE(V("v3"), V("v1"))))),
      Assign("q_in", MulE(V("cp"), SubE(V("T3"), V("T2")))),
      Assign("q_out", MulE(V("cv"), SubE(V("T4"), V("T1")))),
      Assign("w_net", SubE(V("q_in"), V("q_out"))),
      Assign("eff", IfE(V("q_in"), DivE(V("w_net"), V("q_in")), Lit(0))),
      Update(<<<<"T2 [K]", V("T2")>>, <<"T3 [K]", V("T3")>>, <<"T4 [K]", V("T4")>>,
               <<"P2 [kPa]", V("P2")>>, <<"P3 [kPa]", V("P3")>>, <<"P4 [kPa]", V("P4")>>,
               <<"Heat Added [kJ/kg]", V("q_in")>>, <<"Heat Rejected [kJ/kg]", V("q_out")>>,
               <<"Net Work [kJ/kg]", V("w_net")>>,
               <<"Efficiency [%]", MulE(V("eff"), Lit(100))>>>>)>>

\* Lines 133-135: pressure-ratio branch; r is inferred and the function
\* calls itself.
McDieselPressure ==
    <<Assign("r", PowE(DivE(V("P3"), V("P1")), kDen, kNum)),
      Return("solve_diesel_cycle(...)")>>

\* A variant of McDieselHeat whose net work is the heat added, the heat
\* rejected not taken off.
McDieselHeat_WorkIsHeatAdded ==
    <<Assign("v1", DivE(MulE(V("R"), V("T1")), V("P1"))),
      Assign("v2", DivE(V("v1"), V("r"))),
      Assign("T2", MulE(V("T1"), PowKm1E(V("r")))),
      Assign("P2", MulE(V("P1"), PowKE(V("r")))),
      Assign("T3", AddE(V("T2"), DivE(V("Qin"), V("cp")))),
      Assign("v3", DivE(MulE(V("R"), V("T3")), V("P2"))),
      Assign("rc", DivE(V("v3"), V("v2"))),
      Assign("T4", MulE(V("T3"), PowKm1E(DivE(V("v3"), V("v1"))))),
      Assign("P4", MulE(V("P2"), PowKE(DivE(V("v3"), V("v1"))))),
      Assign("q_out", MulE(V("cv"), SubE(V("T4"), V("T1")))),
      Assign("w_net", V("Qin")),
      Assign("eff", DivE(V("w_net"), V("Qin"))),
      Update(<<<<"T2 [K]", V("T2")>>, <<"T3 [K]", V("T3")>>, <<"T4 [K]", V("T4")>>,
               <<"P2 [kPa]", V("P2")>>, <<"P3 [kPa]", V("P2")>>, <<"P4 [kPa]", V("P4")>>,
               <<"Heat Rejected [kJ/kg]", V("q_out")>>,
               <<"Net Work [kJ/kg]", V("w_net")>>,
               <<"Efficiency [%]", MulE(V("eff"), Lit(100))>>,
               <<"Heat Added [kJ/kg]", V("Qin")>>>>)>>
\* Lines 137-158: heat-input branch.
McDieselHeat ==
    <<Assign("v1", DivE(MulE(V("R"), V("T1")), V("P1"))),
      Assign("v2", DivE(V("v1"), V("r"))),
      Assign("T2", MulE(V("T1"), PowKm1E(V("r")))),
      Assign("P2", MulE(V("P1"), PowKE(V("r")))),
      Assign("T3", AddE(V("T2"), DivE(V("Qin"), V("cp")))),
      Assign("v3", DivE(MulE(V("R"), V("T3")), V("P2"))),
      Assign("rc", DivE(V("v3"), V("v2"))),
      Assign("T4", MulE(V("T3"), PowKm1E(DivE(V("v3"), V("v1"))))),
      Assign("P4", MulE(V("P2"), PowKE(DivE(V("v3"), V("v1"))))),
      Assign("q_out", MulE(V("cv"), SubE(V("T4"), V("T1")))),
      Assign("w_net", SubE(V("Qin"), V("q_out"))),
      Assign("eff", DivE(V("w_net"), V("Qin"))),
      Update(<<<<"T2 [K]", V("T2")>>, <<"T3 [K]", V("T3")>>, <<"T4 [K]", V("T4")>>,
               <<"P2 [kPa]", V("P2")>>, <<"P3 [kPa]", V("P2")>>, <<"P4 [kPa]", V("P4")>>,
               <<"Heat Rejected [kJ/kg]", V("q_out")>>,
               <<"Net Work [kJ/kg]", V("w_net")>>,
               <<"Efficiency [%]", MulE(V("eff"), Lit(100))>>,
               <<"Heat Added [kJ/kg]", V("Qin")>>>>)>>

\* Lines 107-163: the try block with the branch b entered, and its except clause.
McDieselStmts(b) ==
    <<Try(McDieselV1
          \o (CASE b = 1 -> McDieselDirect
                [] b = 2 -> McDieselPressure
                [] b = 3 -> McDieselHeat
                [] OTHER -> <<>>)
          \o <<Return("results if results else {Error: ...}")>>,
          <<Return("{Error: str(e)}")>>)>>

\* Line 135: the arguments of the nested call (Qin is not passed on).
McDieselNested(env) ==
    [r |-> env.r, V1 |-> env.V1_L, P1 |-> env.P1, T1 |-> env.T1, Qin |-> NoneV,
     P3 |-> env.P3, T3 |-> env.T3]

\* Lines 160 and 163: what the return statement that ended the run hands back.
McDieselReturn(st, br) ==
    IF st.ret = "{Error: str(e)}" THEN Returned(ErrorDict(st.caught), st.log, br)
    ELSE IF st.log # <<>> THEN Returned(DictOf(st.log), st.log, br)
    ELSE Returned(ErrorDict("Insufficient or inconsistent inputs."), st.log, br)

\* Line 135: the nested call's result is returned as it is; br gains the
\* branch of the caller.
McDieselNest(res, br) ==
    IF res.kind = "unrep" THEN Unrep ELSE [res EXCEPT !.br = br \o @]

\* Lines 101-163.
RECURSIVE mc_solve_diesel_cycle(_)
RECURSIVE McDieselFinish(_, _)

McDieselFinish(st, br) ==
    IF st.nan THEN Unrep
    ELSE IF st.ret = "solve_diesel_cycle(...)"
    THEN McDieselNest(mc_solve_diesel_cycle(McDieselNested(st.env)), br)
    ELSE McDieselReturn(st, br)

mc_solve_diesel_cycle(a) ==
    McDieselFinish(Exec(McDieselStmts(McDieselBranch(a)), Started(McDieselEnv(a))),
                   <<McDieselBranch(a)>>)

---------------------------------------------------------------------------
(* bryton.py: calculate_brayton_cycle (cp = 1.005, k = 1.4 defaults)       *)

Pos(v) == v.t = "num" /\ v.n > 0

\* A variant of EtaDec that uses the percentage as entered, without the
\* division by 100.
EtaDec_Unscaled(cycle_type, eta_input) ==
    IF cycle_type = "Ideal" THEN I(1)
    ELSE IF ~IsNone(eta_input) THEN eta_input ELSE I(1)

\* Lines 39-46: decimal efficiencies used by the calculation.
EtaDec(cycle_type, eta_input) ==
    IF cycle_type = "Ideal" THEN I(1)
    ELSE IF ~IsNone(eta_input) THEN Div(eta_input, I(100)) ELSE I(1)

\* Lines 4-16 and 39-64: the parameters, the decimal efficiencies and the
\* locals initialised to None.
BraytonEnv(a) ==
    [cycle_type |-> StrV(a.cycle_type), r_p |-> a.r_p, T1 |-> a.T1, T3 |-> a.T3,
     T4_actual |-> a.T4_actual, eta_c_input |-> a.eta_c_input,
     eta_t_input |-> a.eta_t_input, net_power_MW |-> a.net_power_MW,
     mass_flow_kgph |-> a.mass_flow_kgph, cp |-> cp,
     eta_c_dec |-> EtaDec(a.cycle_type, a.eta_c_input),
     eta_t_dec |-> EtaDec(a.cycle_type, a.eta_t_input),
     T2s |-> NoneV, T4s |-> NoneV, T2a |-> NoneV, T4a |-> NoneV,
     w_c_s |-> NoneV, w_t_s |-> NoneV, w_c_a |-> NoneV, w_t_a |-> NoneV,
     w_net |-> NoneV, q_in |-> NoneV, q_out |-> NoneV, thermal_efficiency |-> NoneV,
     calculated_eta_c |-> NoneV, calculated_eta_t |-> NoneV,
     calculated_mass_flow_kgs |-> NoneV, calculated_net_power_kW |-> NoneV]

\* Lines 66-81: isentropic temperatures.
BraytonStep1 ==
    <<If(AndE(NotNoneE(V("T1")), NotNoneE(V("r_p"))),
         <<Try(<<Assign("T2s", MulE(V("T1"), PowKm1OverKE(V("r_p")))),
                 Write("T2s", V("T2s"))>>,
               <<Write("error", C(StrV("Could not calculate T2s"))),
                 Return("results")>>)>>, <<>>),
      If(AndE(NotNoneE(V("T3")), NotNoneE(V("r_p"))),
         <<Try(<<Assign("T4s", MulE(V("T3"), PowKm1OverKE(DivE(Lit(1), V("r_p"))))),
                 Write("T4s", V("T4s"))>>,
               <<Write("error", C(StrV("Could not calculate T4s"))),
                 Return("results")>>)>>, <<>>)>>

\* Lines 85-113: actual temperatures and efficiencies.
BraytonStep2 ==
    <<If(OrE(EqE(V("cycle_type"), C(StrV("Ideal"))),
             AndE(NotNoneE(V("eta_c_input")), NotNoneE(V("eta_t_input")))),
         <<If(And3(NotNoneE(V("T2s")), NotNoneE(V("T1")), GtE(V("eta_c_dec"), Lit(0))),
              <<Assign("T2a", AddE(V("T1"), DivE(SubE(V("T2s"), V("T1")), V("eta_c_dec")))),
                Write("T2a", V("T2a"))>>,
              <<If(AndE(IsNoneE(V("T2s")), And3(NotNoneE(V("T1")), NotNoneE(V("T2a")),
                        GtE(V("eta_c_dec"), Lit(0)))),
                   <<Assign("T2s", AddE(V("T1"),
                                        MulE(SubE(V("T2a"), V("T1")), V("eta_c_dec")))),
                     Write("T2s", V("T2s"))>>, <<>>)>>),
           If(And3(NotNoneE(V("T4s")), NotNoneE(V("T3")), GtE(V("eta_t_dec"), Lit(0))),
              <<Assign("T4a", SubE(V("T3"), MulE(SubE(V("T3"), V("T4s")), V("eta_t_dec")))),
                Write("T4a", V("T4a"))>>,
              <<If(AndE(IsNoneE(V("T4s")), And3(NotNoneE(V("T3")), NotNoneE(V("T4a")),
                        GtE(V("eta_t_dec"), Lit(0)))),
                   <<Assign("T4s", SubE(V("T3"),
                                        DivE(SubE(V("T3"), V("T4a")), V("eta_t_dec")))),
                     Write("T4s", V("T4s"))>>, <<>>)>>)>>,
         <<If(NotNoneE(V("T4_actual")),
              <<Assign("T4a", V("T4_actual")),
                Write("T4a", V("T4a")),
                If(AndE(NotNoneE(V("T3")), NotNoneE(V("T4s"))),
                   <<If(NeE(SubE(V("T3"), V("T4s")), Lit(0)),
                        <<Assign("calculated_eta_t",
                                 MulE(DivE(SubE(V("T3"), V("T4a")), SubE(V("T3"), V("T4s"))),
                                      Lit(100))),
                          Write("calculated_eta_t", V("calculated_eta_t")),
                          Assign("eta_t_dec", DivE(V("calculated_eta_t"), Lit(100)))>>,
                        <<Write("error", C(StrV(
                            "Cannot calculate turbine efficiency: (T3 - T4s) is zero.")))>>)>>,
                   <<>>)>>,
              <<>>)>>)>>

\* A variant of BraytonStep3 without lines 145-147: the net work is not
\* computed from the two actual works.
BraytonStep3_NoNetWork ==
    <<If(AndE(NotNoneE(V("T1")), NotNoneE(V("T2s"))),
         <<Assign("w_c_s", MulE(V("cp"), SubE(V("T2s"), V("T1")))),
           Write("w_c_s", V("w_c_s"))>>, <<>>),
      If(AndE(NotNoneE(V("T3")), NotNoneE(V("T4s"))),
         <<Assign("w_t_s", MulE(V("cp"), SubE(V("T3"), V("T4s")))),
           Write("w_t_s", V("w_t_s"))>>, <<>>),
      If(AndE(NotNoneE(V("T1")), NotNoneE(V("T2a"))),
         <<Assign("w_c_a", MulE(V("cp"), SubE(V("T2a"), V("T1")))),
           Write("w_c_a", V("w_c_a"))>>,
         <<If(AndE(NotNoneE(V("w_c_s")), GtE(V("eta_c_dec"), Lit(0))),
              <<Assign("w_c_a", DivE(V("w_c_s"), V("eta_c_dec"))),
                If(AndE(NotNoneE(V("T1")), NeE(V("cp"), Lit(0))),
                   <<Assign("T2a", AddE(V("T1"), DivE(V("w_c_a"), V("cp")))),
                     Write("T2a", V("T2a"))>>, <<>>),
                Write("w_c_a", V("w_c_a"))>>, <<>>)>>),
      If(AndE(NotNoneE(V("T3")), NotNoneE(V("T4a"))),
         <<Assign("w_t_a", MulE(V("cp"), SubE(V("T3"), V("T4a")))),
           Write("w_t_a", V("w_t_a"))>>,
         <<If(AndE(NotNoneE(V("w_t_s")), GtE(V("eta_t_dec"), Lit(0))),
              <<Assign("w_t_a", MulE(V("w_t_s"), V("eta_t_dec"))),
                If(AndE(NotNoneE(V("T3")), NeE(V("cp"), Lit(0))),
                   <<Assign("T4a", SubE(V("T3"), DivE(V("w_t_a"), V("cp")))),
                     Write("T4a", V("T4a"))>>, <<>>),
                Write("w_t_a", V("w_t_a"))>>, <<>>)>>),
      If(AndE(NotNoneE(V("T3")), NotNoneE(V("T2a"))),
         <<Assign("q_in", MulE(V("cp"), SubE(V("T3"), V("T2a")))),
           Write("q_in", V("q_in"))>>, <<>>),
      If(AndE(NotNoneE(V("T4a")), NotNoneE(V("T1"))),
         <<Assign("q_out", MulE(V("cp"), SubE(V("T4a"), V("T1")))),
           Write("q_out", V("q_out"))>>, <<>>),
      If(And3(NotNoneE(V("w_net")), NotNoneE(V("q_in")), NeE(V("q_in"), Lit(0))),
         <<Assign("thermal_efficiency", MulE(DivE(V("w_net"), V("q_in")), Lit(100))),
           Write("thermal_efficiency", V("thermal_efficiency"))>>,
         <<If(And3(NotNoneE(V("q_in")), NotNoneE(V("q_out")), NeE(V("q_in"), Lit(0))),
              <<Assign("thermal_efficiency",
                       MulE(SubE(Lit(1), DivE(V("q_out"), V("q_in"))), Lit(100))),
                Write("thermal_efficiency", V("thermal_efficiency"))>>, <<>>)>>)>>
\* Lines 116-163: work terms, net work, heat transfer, thermal efficiency.
BraytonStep3 ==
    <<If(AndE(NotNoneE(V("T1")), NotNoneE(V("T2s"))),
         <<Assign("w_c_s", MulE(V("cp"), SubE(V("T2s"), V("T1")))),
           Write("w_c_s", V("w_c_s"))>>, <<>>),
      If(AndE(NotNoneE(V("T3")), NotNoneE(V("T4s"))),
         <<Assign("w_t_s", MulE(V("cp"), SubE(V("T3"), V("T4s")))),
           Write("w_t_s", V("w_t_s"))>>, <<>>),
      If(AndE(NotNoneE(V("T1")), NotNoneE(V("T2a"))),
         <<Assign("w_c_a", MulE(V("cp"), SubE(V("T2a"), V("T1")))),
           Write("w_c_a", V("w_c_a"))>>,
         <<If(AndE(NotNoneE(V("w_c_s")), GtE(V("eta_c_dec"), Lit(0))),
              <<Assign("w_c_a", DivE(V("w_c_s"), V("eta_c_dec"))),
                If(AndE(NotNoneE(V("T1")), NeE(V("cp"), Lit(0))),
                   <<Assign("T2a", AddE(V("T1"), DivE(V("w_c_a"), V("cp")))),
                     Write("T2a", V("T2a"))>>, <<>>),
                Write("w_c_a", V("w_c_a"))>>, <<>>)>>),
      If(AndE(NotNoneE(V("T3")), NotNoneE(V("T4a"))),
         <<Assign("w_t_a", MulE(V("cp"), SubE(V("T3"), V("T4a")))),
           Write("w_t_a", V("w_t_a"))>>,
         <<If(AndE(NotNoneE(V("w_t_s")), GtE(V("eta_t_dec"), Lit(0))),
              <<Assign("w_t_a", MulE(V("w_t_s"), V("eta_t_dec"))),
                If(AndE(NotNoneE(V("T3")), NeE(V("cp"), Lit(0))),
                   <<Assign("T4a", SubE(V("T3"), DivE(V("w_t_a"), V("cp")))),
                     Write("T4a", V("T4a"))>>, <<>>),
                Write("w_t_a", V("w_t_a"))>>, <<>>)>>),
      If(AndE(NotNoneE(V("w_t_a")), NotNoneE(V("w_c_a"))),
         <<Assign("w_net", SubE(V("w_t_a"), V("w_c_a"))),
           Write("w_net", V("w_net"))>>, <<>>),
      If(AndE(NotNoneE(V("T3")), NotNoneE(V("T2a"))),
         <<Assign("q_in", MulE(V("cp"), SubE(V("T3"), V("T2a")))),
           Write("q_in", V("q_in"))>>, <<>>),
      If(AndE(NotNoneE(V("T4a")), NotNoneE(V("T1"))),
         <<Assign("q_out", MulE(V("cp"), SubE(V("T4a"), V("T1")))),
           Write("q_out", V("q_out"))>>, <<>>),
      If(And3(NotNoneE(V("w_net")), NotNoneE(V("q_in")), NeE(V("q_in"), Lit(0))),
         <<Assign("thermal_efficiency", MulE(DivE(V("w_net"), V("q_in")), Lit(100))),
           Write("thermal_efficiency", V("thermal_efficiency"))>>,
         <<If(And3(NotNoneE(V("q_in")), NotNoneE(V("q_out")), NeE(V("q_in"), Lit(0))),
              <<Assign("thermal_efficiency",
                       MulE(SubE(Lit(1), DivE(V("q_out"), V("q_in"))), Lit(100))),
                Write("thermal_efficiency", V("thermal_efficiency"))>>, <<>>)>>)>>

\* Lines 170-202: net power and mass flow.
BraytonStep4 ==
    <<If(AndE(NotNoneE(V("net_power_MW")), NotNoneE(V("mass_flow_kgph"))),
         <<Assign("calculated_mass_flow_kgs", DivE(V("mass_flow_kgph"), Lit(3600))),
           Assign("calculated_net_power_kW", MulE(V("net_power_MW"), Lit(1000))),
           Write("mass_flow_kgs", V("calculated_mass_flow_kgs")),
           Write("net_power_kW", V("calculated_net_power_kW")),
           If(NeE(V("calculated_mass_flow_kgs"), Lit(0)),
              <<Assign("derived_w_net",
                       DivE(V("calculated_net_power_kW"), V("calculated_mass_flow_kgs"))),
                Write("derived_w_net", V("derived_w_net")),
                If(IsNoneE(V("w_net")),
                   <<Assign("w_net", V("derived_w_net")),
                     Write("w_net", V("w_net"))>>, <<>>)>>, <<>>)>>, <<>>),
      If(And3(NotNoneE(V("w_net")), NotNoneE(V("net_power_MW")), IsNoneE(V("mass_flow_kgph"))),
         <<Assign("calculated_net_power_kW", MulE(V("net_power_MW"), Lit(1000))),
           If(NeE(V("w_net"), Lit(0)),
              <<Assign("calculated_mass_flow_kgs",
                       DivE(V("calculated_net_power_kW"), V("w_net"))),
                Write("mass_flow_kgs", V("calculated_mass_flow_kgs")),
                Write("mass_flow_kgph", MulE(V("calculated_mass_flow_kgs"), Lit(3600)))>>,
              <<Write("error", C(StrV(
                  "Cannot calculate mass flow rate: Net work is zero.")))>>)>>, <<>>),
      If(And3(NotNoneE(V("w_net")), NotNoneE(V("mass_flow_kgph")), IsNoneE(V("net_power_MW"))),
         <<Assign("calculated_mass_flow_kgs", DivE(V("mass_flow_kgph"), Lit(3600))),
           Assign("calculated_net_power_kW", MulE(V("w_net"), V("calculated_mass_flow_kgs"))),
           Write("net_power_kW", V("calculated_net_power_kW")),
           Write("net_power_MW", DivE(V("calculated_net_power_kW"), Lit(1000)))>>, <<>>)>>

\* A variant of the solver that deduces no efficiency at the end.
BraytonStep5_Omitted == <<>>

\* Lines 208-243: efficiencies deduced for the Actual cycle.
BraytonStep5 ==
    <<If(AndE(EqE(V("cycle_type"), C(StrV("Actual"))), And3(NotNoneE(V("T1")),
              NotNoneE(V("T3")), NotNoneE(V("r_p")))),
         <<If(And3(IsNoneE(V("eta_c_input")), NotNoneE(V("T2a")), NotNoneE(V("T2s"))),
              <<If(NeE(SubE(V("T2a"), V("T1")), Lit(0)),
                   <<Assign("calculated_eta_c",
                            MulE(DivE(SubE(V("T2s"), V("T1")), SubE(V("T2a"), V("T1"))),
                                 Lit(100))),
                     Write("calculated_eta_c", V("calculated_eta_c"))>>,
                   <<Write("error", C(StrV(
                       "Cannot calculate compressor efficiency: (T2a - T1) is zero.")))>>)>>,
              <<>>),
           If(And3(IsNoneE(V("eta_t_input")), NotNoneE(V("T4a")), NotNoneE(V("T4s"))),
              <<If(NeE(SubE(V("T3"), V("T4s")), Lit(0)),
                   <<Assign("calculated_eta_t",
                            MulE(DivE(SubE(V("T3"), V("T4a")), SubE(V("T3"), V("T4s"))),
                                 Lit(100))),
                     Write("calculated_eta_t", V("calculated_eta_t"))>>,
                   <<Write("error", C(StrV(
                       "Cannot calculate turbine efficiency: (T3 - T4s) is zero.")))>>)>>,
              <<>>),
           If(AndE(And3(NotNoneE(V("T4_actual")), NotNoneE(V("net_power_MW")),
                        NotNoneE(V("mass_flow_kgph"))),
                   AndE(IsNoneE(V("eta_c_input")), IsNoneE(V("eta_t_input")))),
              <<If(And3(NotNoneE(V("calculated_net_power_kW")),
                        NotNoneE(V("calculated_mass_flow_kgs")),
                        NeE(V("calculated_mass_flow_kgs"), Lit(0))),
                   <<Assign("derived_w_net_from_power",
                            DivE(V("calculated_net_power_kW"), V("calculated_mass_flow_kgs"))),
                     Assign("w_t_a_from_T4a", MulE(V("cp"), SubE(V("T3"), V("T4_actual")))),
                     Assign("w_c_a_derived",
                            SubE(V("w_t_a_from_T4a"), V("derived_w_net_from_power"))),
                     If(AndE(NotNoneE(V("T1")), NeE(V("cp"), Lit(0))),
                        <<Assign("derived_T2a",
                                 AddE(V("T1"), DivE(V("w_c_a_derived"), V("cp")))),
                          Write("derived_T2a", V("derived_T2a")),
                          If(AndE(NotNoneE(V("T2s")),
                                  NeE(SubE(V("derived_T2a"), V("T1")), Lit(0))),
                             <<Assign("calculated_eta_c",
                                      MulE(DivE(SubE(V("T2s"), V("T1")),
                                                SubE(V("derived_T2a"), V("T1"))), Lit(100))),
                               Write("calculated_eta_c", V("calculated_eta_c"))>>,
                             <<Write("error", C(StrV(
                                 "Cannot calculate compressor efficiency for this scenario.")))>>)>>,
                        <<Write("error", C(StrV(
                            "Insufficient data to derive T2a for compressor efficiency calculation.")))>>)>>,
                   <<>>)>>,
              <<>>)>>,
         <<>>)>>

\* Lines 246-251: the inputs echoed into results.
BraytonEcho ==
    <<Write("T1", V("T1")),
      Write("T3", V("T3")),
      Write("r_p", V("r_p")),
      Write("cycle_type", V("cycle_type")),
      Write("input_eta_c", V("eta_c_input")),
      Write("input_eta_t", V("eta_t_input"))>>

\* Line 254: only the non-None values are kept.
DropNone(dict) == [key \in {x \in DOMAIN dict : ~IsNone(dict[x])} |-> dict[key]]

BraytonInit == <<W("error", NoneV)>>          \* line 37: results = {"error": None}

\* Lines 66-255.
BraytonStmts ==
    BraytonStep1 \o BraytonStep2 \o BraytonStep3 \o BraytonStep4 \o BraytonStep5
    \o BraytonEcho \o <<Return("final_results")>>

\* A variant of BraytonReturn that returns results as it stands, without the
\* clean-up of line 254.
BraytonReturn_Unfiltered(st) ==
    IF st.nan THEN Unrep
    ELSE IF st.exc # "" THEN Raised(st.exc, st.log, <<>>)
    ELSE Returned(DictOf(BraytonInit \o st.log), st.log, <<>>)
\* Lines 73, 81 and 254-255: results as it stands, or without its None
\* values.  No try block encloses the body: an exception outside steps 1's
\* try blocks escapes.  The log holds the assignments made after line 37.
BraytonReturn(st) ==
    IF st.nan THEN Unrep
    ELSE IF st.exc # "" THEN Raised(st.exc, st.log, <<>>)
    ELSE IF st.ret = "results" THEN Returned(DictOf(BraytonInit \o st.log), st.log, <<>>)
    ELSE Returned(DropNone(DictOf(BraytonInit \o st.log)), st.log, <<>>)

calculate_brayton_cycle(a) == BraytonReturn(Exec(BraytonStmts, Started(BraytonEnv(a))))

---------------------------------------------------------------------------
(* mechanical_cycles.py: brayton_cycle_app.brayton                         *)

\* Line 11: the parameters.
McBraytonEnv(a) ==
    [cycle |-> StrV(a.cycle), rp |-> a.rp, T1 |-> a.T1, T3 |-> a.T3, T4 |-> a.T4,
     eta_c |-> a.eta_c, eta_t |-> a.eta_t, P_MW |-> a.P_MW, m_kgph |-> a.m_kgph]

\* Lines 14-15: the given efficiency as a fraction, or 1 when it is None or
\* 0 or the cycle is Ideal.
McEta(eta) ==
    IfE(AndE(EqE(V("cycle"), C(StrV("Actual"))), NotNoneOrZeroE(V(eta))),
        DivE(V(eta), Lit(100)), Lit(1))

\* Lines 12-44.  No try block: an exception escapes to the caller.
McBraytonStmts ==
    <<Assign("e_c", McEta("eta_c")),
      Assign("e_t", McEta("eta_t")),
      Assign("cp", C(cp)),
      Assign("T2s", MulE(V("T1"), PowKm1OverKE(V("rp")))),
      Assign("T4s", DivE(V("T3"), PowKm1OverKE(V("rp")))),
      Assign("T2a", AddE(V("T1"), DivE(SubE(V("T2s"), V("T1")), V("e_c")))),
      Assign("T4a", IfE(IsNoneE(V("T4")),
                        SubE(V("T3"), MulE(SubE(V("T3"), V("T4s")), V("e_t"))), V("T4"))),
      Assign("wc", MulE(V("cp"), SubE(V("T2a"), V("T1")))),
      Assign("wt", MulE(V("cp"), SubE(V("T3"), V("T4a")))),
      Assign("wnet", SubE(V("wt"), V("wc"))),
      Assign("qin", MulE(V("cp"), SubE(V("T3"), V("T2a")))),
      Assign("qout", MulE(V("cp"), SubE(V("T4a"), V("T1")))),
      Assign("eff", IfE(V("qin"), MulE(DivE(V("wnet"), V("qin")), Lit(100)), Lit(0))),
      Update(<<<<"T1", V("T1")>>, <<"T3", V("T3")>>, <<"rp", V("rp")>>,
               <<"T2s", V("T2s")>>, <<"T4s", V("T4s")>>, <<"T2a", V("T2a")>>,
               <<"T4a", V("T4a")>>, <<"w_c", V("wc")>>, <<"w_t", V("wt")>>,
               <<"w_net", V("wnet")>>, <<"q_in", V("qin")>>, <<"q_out", V("qout")>>,
               <<"eff", V("eff")>>>>),
      If(OrE(V("P_MW"), V("m_kgph")),
         <<Assign("wnet", DivE(MulE(V("P_MW"), Lit(1000)), DivE(V("m_kgph"), Lit(3600)))),
           Assign("wc", SubE(V("wt"), V("wnet"))),
           Assign("T2a", AddE(DivE(V("wc"), V("cp")), V("T1"))),
           Assign("eta_c", MulE(DivE(MulE(V("cp"), SubE(V("T2s"), V("T1"))), V("wc")),
                                Lit(100))),
           Assign("qin", MulE(V("cp"), SubE(V("T3"), V("T2a")))),
           Update(<<<<"w_net", V("wnet")>>, <<"w_c", V("wc")>>, <<"q_in", V("qin")>>,
                    <<"T2a", V("T2a")>>>>)>>, <<>>),
      If(EqE(V("cycle"), C(StrV("Actual"))),
         <<Write("eta_c", IfE(NotNoneOrZeroE(V("eta_c")), V("eta_c"),
                              MulE(DivE(SubE(V("T2s"), V("T1")), SubE(V("T2a"), V("T1"))),
                                   Lit(100)))),
           Write("eta_t", IfE(NotNoneOrZeroE(V("eta_t")), V("eta_t"),
                              MulE(DivE(SubE(V("T3"), V("T4a")), SubE(V("T3"), V("T4s"))),
                                   Lit(100))))>>, <<>>),
      Return("r")>>

\* Line 44, or the exception that escaped.
McBraytonReturn(st) ==
    IF st.nan THEN Unrep
    ELSE IF st.exc # "" THEN Raised(st.exc, st.log, <<>>)
    ELSE Returned(DictOf(st.log), st.log, <<>>)

brayton(a) == McBraytonReturn(Exec(McBraytonStmts, Started(McBraytonEnv(a))))

---------------------------------------------------------------------------
(* otto.py: main, lines 18-45 (the same code is otto_cycle_app of          *)
(* mechanical_cycles.py, lines 310-337).  The displayed metrics are the    *)
(* result; no try block.                                                   *)

\* otto.py lines 7-16: the constants and the widget values.
OttoEnv_CpForCv(a) ==
    [compression_ratio |-> a.r, heat_added |-> a.Qin, T1 |-> a.T1, P1 |-> a.P1,
     R |-> R, cv |-> cp, cp |-> cp]
OttoEnv(a) ==
    [compression_ratio |-> a.r, heat_added |-> a.Qin, T1 |-> a.T1, P1 |-> a.P1,
     R |-> R, cv |-> cv, cp |-> cp]

OttoStmts ==
    <<Assign("V1", DivE(MulE(V("R"), V("T1")), V("P1"))),
      Assign("V2", DivE(V("V1"), V("compression_ratio"))),
      Assign("P2", DivE(V("P1"), PowKE(DivE(Lit(1), V("compression_ratio"))))),
      Assign("T2", MulE(V("T1"), PowKm1E(V("compression_ratio")))),
      Assign("V3", V("V2")),
      Assign("T3", AddE(V("T2"), DivE(V("heat_added"), V("cv")))),
      Assign("P3", DivE(MulE(V("R"), V("T3")), V("V3"))),
      Assign("V4", V("V1")),
      Assign("T4", DivE(V("T3"), PowKm1E(V("compression_ratio")))),
      Assign("P4", DivE(MulE(V("R"), V("T4")), V("V4"))),
      Assign("heat_rejected", MulE(V("cv"), SubE(V("T4"), V("T1")))),
      Assign("work_output", SubE(V("heat_added"), V("heat_rejected"))),
      Assign("efficiency", MulE(DivE(V("work_output"), V("heat_added")), Lit(100))),
      Write("T1", V("T1")),
      Write("P1", V("P1")),
      Write("T2", V("T2")),
      Write("P2", V("P2")),
      Write("T3", V("T3")),
      Write("P3", V("P3")),
      Write("T4", V("T4")),
      Write("P4", V("P4")),
      Write("Efficiency", V("efficiency")),
      Write("Work Output", V("work_output")),
      Write("Heat Rejected", V("heat_rejected"))>>

\* The metrics shown, or the exception that escaped the handler.
Shown(st) ==
    IF st.nan THEN Unrep
    ELSE IF st.exc # "" THEN Raised(st.exc, st.log, <<>>)
    ELSE Returned(DictOf(st.log), st.log, <<>>)

otto(a) == Shown(Exec(OttoStmts, Started(OttoEnv(a))))

---------------------------------------------------------------------------
(* The Otto solver in decimal arithmetic.  A float is enclosed between two *)
(* decimals of four places, each held as a whole number of 1/Unit; every   *)
(* operation rounds the lower end down and the upper end up, so the float  *)
(* the code computes lies between them (up to the float's own rounding,    *)
(* which is far below 1/Unit).  x ** (p/q) is enclosed for every positive  *)
(* x, a perfect power or not.                                              *)

Unit == 10^4

\* floor(x * y / Unit) and floor(x * Unit / y), y > 0, without passing 2^31.
Prod(x, y) ==
    (x \div Unit) * y + (x % Unit) * (y \div Unit) + ((x % Unit) * (y % Unit)) \div Unit
Quot(x, y) ==
    (x \div y) * Unit + ((((x % y) * 100) \div y) * 100)
        + ((((x % y) * 100) % y) * 100) \div y

\* The decimals that enclose the rational v.
Decimal(v) == [lo |-> Quot(v.n, v.d), hi |-> -Quot(-v.n, v.d)]

\* Whole numbers of any size, as digits to the base Unit, lowest first:
\* a * m + carry, and m^n.
RECURSIVE BigTimes(_, _, _)
BigTimes(a, m, carry) ==
    IF a = <<>>
    THEN (IF carry = 0 THEN <<>> ELSE <<carry % Unit>> \o BigTimes(a, m, carry \div Unit))
    ELSE <<(Head(a) * m + carry) % Unit>>
            \o BigTimes(Tail(a), m, (Head(a) * m + carry) \div Unit)
RECURSIVE Power(_, _)
Power(m, n) == IF n = 0 THEN <<1>> ELSE BigTimes(Power(m, n - 1), m, 0)

\* floor of (x/Unit) ** (p/q) in units of 1/Unit, searched between l (not
\* above it) and h (above it): the largest m with m^q * Unit^p <= x^p * Unit^q.
RECURSIVE Bisect(_, _, _, _, _)
Bisect(l, h, x, p, q) ==
    LET m == (l + h) \div 2
        a == [i \in 1..p |-> 0] \o Power(m, q)
        b == [i \in 1..q |-> 0] \o Power(x, p)
    IN IF h - l <= 1 THEN l
       ELSE IF \/ Len(a) < Len(b)
               \/ /\ Len(a) = Len(b)
                  /\ \/ a = b
                     \/ \E i \in 1..Len(a) :
                           a[i] < b[i] /\ \A j \in (i + 1)..Len(a) : a[j] = b[j]
       THEN Bisect(m, h, x, p, q)
       ELSE Bisect(l, m, x, p, q)

\* The enclosure of an expression; operands are positive where the Otto
\* code divides or takes a power.
RECURSIVE Range(_, _)
Range(x, env) ==
    CASE x.e = "const" -> Decimal(x.v)
      [] x.e = "var" -> env[x.x]
      [] x.e = "add" -> [lo |-> Range(x.l, env).lo + Range(x.r, env).lo,
                         hi |-> Range(x.l, env).hi + Range(x.r, env).hi]
      [] x.e = "sub" -> [lo |-> Range(x.l, env).lo - Range(x.r, env).hi,
                         hi |-> Range(x.l, env).hi - Range(x.r, env).lo]
      [] x.e = "mul" ->
            LET a == Range(x.l, env)
                b == Range(x.r, env)
                down == {Prod(u, v) : u \in {a.lo, a.hi}, v \in {b.lo, b.hi}}
                up == {-Prod(-u, v) : u \in {a.lo, a.hi}, v \in {b.lo, b.hi}}
            IN [lo |-> CHOOSE m \in down : \A n \in down : m <= n,
                hi |-> CHOOSE m \in up : \A n \in up : m >= n]
      [] x.e = "div" ->
            LET a == Range(x.l, env)
                b == Range(x.r, env)
                down == {Quot(u, v) : u \in {a.lo, a.hi}, v \in {b.lo, b.hi}}
                up == {-Quot(-u, v) : u \in {a.lo, a.hi}, v \in {b.lo, b.hi}}
            IN [lo |-> CHOOSE m \in down : \A n \in down : m <= n,
                hi |-> CHOOSE m \in up : \A n \in up : m >= n]
      [] x.e = "pow" ->
            [lo |-> Bisect(0, 20 * Unit, Range(x.l, env).lo, x.p, x.q),
             hi |-> Bisect(0, 20 * Unit, Range(x.l, env).hi, x.p, x.q) + 1]

\* The writes a straight sequence of assignments and writes makes.
RECURSIVE RangeRun(_, _, _)
RangeRun(stmts, env, log) ==
    IF stmts = <<>> THEN log
    ELSE IF Head(stmts).s = "assign"
    THEN RangeRun(Tail(stmts),
                  [n \in DOMAIN env \cup {Head(stmts).x} |->
                      IF n = Head(stmts).x THEN Range(Head(stmts).e, env) ELSE env[n]],
                  log)
    ELSE RangeRun(Tail(stmts), env,
                  Append(log, W(Head(stmts).k, Range(Head(stmts).e, env))))

\* otto.py lines 19-45 on positive inputs: the enclosure of every metric.
otto_decimal(a) ==
    LET log == RangeRun(OttoStmts, [n \in DOMAIN OttoEnv(a) |-> Decimal(OttoEnv(a)[n])], <<>>)
    IN Returned(DictOf(log), log, <<>>)

---------------------------------------------------------------------------
(* dual.py: solve_dual_cycle                                               *)

\* Lines 3-6: the parameters and the constants.
DualEnv(a) ==
    [r |-> a.r, rp |-> a.rp, rc |-> a.rc, V1_L |-> a.V1, P1 |-> a.P1, T1 |-> a.T1,
     Qin |-> a.Qin, R |-> R, cv |-> cv, cp |-> cp]

\* Lines 10-11.
DualV1 ==
    <<Assign("V1_m3", IfE(V("V1_L"), DivE(V("V1_L"), Lit(1000)), C(NoneV))),
      Assign("v1", IfE(AndE(V("T1"), V("P1")),
                       DivE(MulE(V("R"), V("T1")), V("P1")), V("V1_m3")))>>

\* Line 13.
DualBranch(a) ==
    IF Truthy(a.r) /\ Truthy(a.rc) /\ Truthy(a.rp) /\ Truthy(a.T1) THEN 1 ELSE 0

\* Lines 14-44.
DualCycle ==
    <<Assign("v2", DivE(V("v1"), V("r"))),
      Assign("T2", MulE(V("T1"), PowKm1E(V("r")))),
      Assign("P2", MulE(V("P1"), PowKE(V("r")))),
      Assign("T3", MulE(V("T2"), V("rp"))),
      Assign("P3", MulE(V("P2"), V("rp"))),
      Assign("v3", V("v2")),
      Assign("v4", MulE(V("rc"), V("v3"))),
      Assign("T4", MulE(V("T3"), V("rc"))),
      Assign("P4", V("P3")),
      Assign("T5", MulE(V("T4"), PowE(DivE(V("v4"), V("v1")), kDen - kNum, kDen))),
      Assign("P5", MulE(V("P4"), PowE(DivE(V("v4"), V("v1")), -kNum, kDen))),
      Assign("q_in", AddE(MulE(V("cv"), SubE(V("T3"), V("T2"))),
                          MulE(V("cp"), SubE(V("T4"), V("T3"))))),
      Assign("q_out", MulE(V("cv"), SubE(V("T5"), V("T1")))),
      Assign("w_net", SubE(V("q_in"), V("q_out"))),
      Assign("eff", IfE(V("q_in"), DivE(V("w_net"), V("q_in")), Lit(0))),
      Update(<<<<"T2 [K]", V("T2")>>, <<"T3 [K]", V("T3")>>, <<"T4 [K]", V("T4")>>,
               <<"T5 [K]", V("T5")>>, <<"P2 [kPa]", V("P2")>>, <<"P3 [kPa]", V("P3")>>,
               <<"P4 [kPa]", V("P4")>>, <<"P5 [kPa]", V("P5")>>,
               <<"Heat Added [kJ/kg]", V("q_in")>>, <<"Heat Rejected [kJ/kg]", V("q_out")>>,
               <<"Net Work [kJ/kg]", V("w_net")>>,
               <<"Efficiency [%]", MulE(V("eff"), Lit(100))>>>>)>>

\* Lines 9-49: the try block, entering the cycle when b = 1, and its except clause.
DualStmts(b) ==
    <<Try(DualV1
          \o (IF b = 1 THEN DualCycle ELSE <<>>)
          \o <<Return("results if results else {Error: ...}")>>,
          <<Return("{Error: str(e)}")>>)>>

\* Lines 46 and 49: what the return statement that ended the run hands back.
DualReturn_NoneWhenEmpty(st, br) ==
    IF st.nan THEN Unrep
    ELSE IF st.ret = "{Error: str(e)}" THEN Returned(ErrorDict(st.caught), st.log, br)
    ELSE Returned(DictOf(st.log), st.log, br)
DualReturn(st, br) ==
    IF st.nan THEN Unrep
    ELSE IF st.ret = "{Error: str(e)}" THEN Returned(ErrorDict(st.caught), st.log, br)
    ELSE IF st.log # <<>> THEN Returned(DictOf(st.log), st.log, br)
    ELSE Returned(ErrorDict("Insufficient or inconsistent inputs."), st.log, br)

solve_dual_cycle(a) ==
    DualReturn(Exec(DualStmts(DualBranch(a)), Started(DualEnv(a))), <<DualBranch(a)>>)

---------------------------------------------------------------------------
(* mechanical_cycles.py: dual_cycle_app, lines 242-287 (pressures in bar). *)
(* The displayed metrics are the result; no try block.                     *)

\* Lines 226-240: the constants and the widget values.
McDualEnv(a) ==
    [r |-> a.r, P1 |-> a.P1, T1 |-> a.T1, P3 |-> a.P3, R |-> R, cv |-> cv, cp |-> cp]

McDualStmts ==
    <<Assign("V1", DivE(MulE(V("R"), V("T1")), V("P1"))),
      Assign("V2", DivE(V("V1"), V("r"))),
      Assign("T2", MulE(V("T1"), PowKm1E(V("r")))),
      Assign("P2", MulE(V("P1"), PowKE(V("r")))),
      Assign("T3", DivE(MulE(V("P3"), V("T2")), V("P2"))),
      Assign("V3", V("V2")),
      Assign("q_in1", MulE(V("cv"), SubE(V("T3"), V("T2")))),
      Assign("P4", V("P3")),
      Assign("q_in2", V("q_in1")),
      Assign("T4", AddE(DivE(V("q_in2"), V("cp")), V("T3"))),
      Assign("V4", DivE(MulE(V("R"), V("T4")), V("P4"))),
      Assign("V5", V("V1")),
      Assign("T5", MulE(V("T4"), PowKm1E(DivE(V("V4"), V("V5"))))),
      Assign("P5", MulE(V("P4"), PowKE(DivE(V("V4"), V("V5"))))),
      Assign("q_in", AddE(V("q_in1"), V("q_in2"))),
      Assign("q_out", MulE(V("cv"), SubE(V("T5"), V("T1")))),
      Assign("w_net", SubE(V("q_in"), V("q_out"))),
      Assign("efficiency", IfE(V("q_in"), MulE(DivE(V("w_net"), V("q_in")), Lit(100)),
                               Lit(0))),
      Write("T2", V("T2")),
      Write("P2", V("P2")),
      Write("T3", V("T3")),
      Write("P3", V("P3")),
      Write("T4", V("T4")),
      Write("P4", V("P4")),
      Write("T5", V("T5")),
      Write("P5", V("P5")),
      Write("Efficiency", V("efficiency")),
      Write("Net Work", V("w_net")),
      Write("Heat Added", V("q_in")),
      Write("Heat Rejected", V("q_out"))>>

dual_cycle_app(a) == Shown(Exec(McDualStmts, Started(McDualEnv(a))))

---------------------------------------------------------------------------
(* The session: one of the scripts is running (app) and shows its number   *)
(* widgets (inp).  The user changes one widget at a time and presses the   *)
(* solve button; the handler converts the widget values into the solver's  *)
(* arguments, calls the solver, and out is what the call handed back.  Any *)
(* edit re-runs the script without the button, which clears the result.    *)

\* prev is a history variable: an earlier press of the button (page,
\* arguments, result) kept for comparison with later ones, and whether a
\* solve on other arguments has run since.
VARIABLES app, inp, out, prev
vars == <<app, inp, out, prev>>

Ints(S) == {I(x) : x \in S}
Opt(S) == {NoneV} \cup S
\* Ratios are entered as powers of a base in Bases, so that the powers the
\* solvers take of them are rational.
Bases == {1, MaxBase}
Fifths == {i^kDen : i \in Bases}
Sevenths == {i^kNum : i \in Bases}

\* Widget values.  diesel.py lines 207-217 and mechanical_cycles.py lines
\* 170-180: number widgets, 0.0 until the user types a value.
DieselDom ==
    [r |-> Ints({0} \cup Fifths),
     V1 |-> {I(0), Num(2871, 10)},
     P1 |-> Ints({0, 1}),
     T1 |-> Ints({0, 1}),
     Qin |-> {I(0)} \cup {Mul(cp, I(i^kNum - i^(kNum - kDen))) : i \in Bases \ {1}},
     P3 |-> Ints({0} \cup Sevenths),
     T3 |-> Ints({0} \cup Sevenths)]

\* bryton.py lines 263-295: T1 and T3 may be empty in the Actual form, the
\* optional widgets may always be empty, the pressure ratio starts at 10.
BraytonDom ==
    [cycle_type |-> {"Ideal", "Actual"},
     r_p |-> Ints({10} \cup Sevenths),
     T1 |-> Opt(Ints({0, 1, 300})),
     T3 |-> Opt(Ints({0, 18, 1200})),
     T4_actual |-> Opt(Ints({4})),
     eta_c_input |-> Opt(Ints({0, 80, 100})),
     eta_t_input |-> Opt(Ints({0, 80, 100})),
     net_power_MW |-> Opt(Ints({0, 1})),
     mass_flow_kgph |-> Opt(Ints({0, 3600}))]

\* mechanical_cycles.py lines 47-61.
McBraytonDom ==
    [cycle |-> {"Ideal", "Actual"},
     rp |-> Ints({0} \cup Sevenths),
     T1 |-> Ints({0, 1}),
     T3 |-> Ints({0, 18}),
     T4 |-> Ints({0, 4}),
     eta_c |-> Ints({0, 80, 100}),
     eta_t |-> Ints({0, 80, 100}),
     P_MW |-> Ints({0, 1}),
     m_kgph |-> Ints({0, 3600})]

\* otto.py lines 13-16 and mechanical_cycles.py lines 304-308.
OttoDom ==
    [r |-> Ints({8} \cup Fifths),
     Qin |-> Ints({0, 359, 1000}),
     T1 |-> Ints({0, 1, 300}),
     P1 |-> Ints({0, 1, 100})]

\* dual.py lines 59-69.
DualDom ==
    [r |-> Ints({0} \cup Fifths),
     rp |-> Ints({0, 2}),
     rc |-> Ints({0} \cup Fifths),
     V1 |-> Ints({0, 1}),
     P1 |-> Ints({0, 1}),
     T1 |-> Ints({0, 1}),
     Qin |-> Ints({0, 1})]

\* mechanical_cycles.py lines 236-240.
McDualDom ==
    [r |-> Ints({1}),
     P1 |-> Ints({0, 1}),
     T1 |-> Ints({0, 1}),
     P3 |-> Ints({0, 1})]

McCycles == {"mc.Brayton", "mc.Diesel", "mc.Dual", "mc.Otto"}

Dom(a) ==
    CASE a \in {"diesel.py", "mc.Diesel"} -> DieselDom
      [] a = "bryton.py" -> BraytonDom
      [] a = "mc.Brayton" -> McBraytonDom
      [] a \in {"otto.py", "mc.Otto"} -> OttoDom
      [] a = "dual.py" -> DualDom
      [] a = "mc.Dual" -> McDualDom

\* bryton.py lines 268-270: the starting value of T1 and T3 depends on the
\* cycle type.
BraytonDefault(cycle_type, f) ==
    IF cycle_type = "Actual" THEN NoneV
    ELSE IF f = "T1" THEN I(300) ELSE I(1200)

\* The widgets before the user has entered anything.
Blank(a) ==
    CASE a \in {"diesel.py", "mc.Diesel"} -> [f \in DOMAIN DieselDom |-> I(0)]
      [] a = "bryton.py" ->
            [cycle_type |-> "Ideal", r_p |-> I(10),
             T1 |-> BraytonDefault("Ideal", "T1"), T3 |-> BraytonDefault("Ideal", "T3"),
             T4_actual |-> NoneV, eta_c_input |-> NoneV, eta_t_input |-> NoneV,
             net_power_MW |-> NoneV, mass_flow_kgph |-> NoneV]
      [] a = "mc.Brayton" ->
            [f \in DOMAIN McBraytonDom |-> IF f = "cycle" THEN "Ideal" ELSE I(0)]
      [] a = "otto.py" -> [r |-> I(8), Qin |-> I(1000), T1 |-> I(0), P1 |-> I(0)]
      [] a = "mc.Otto" -> [r |-> I(1), Qin |-> I(0), T1 |-> I(0), P1 |-> I(0)]
      [] a = "dual.py" -> [f \in DOMAIN DualDom |-> I(0)]
      [] a = "mc.Dual" -> [r |-> I(1), P1 |-> I(0), T1 |-> I(0), P3 |-> I(0)]

NoRun == [app |-> "", args |-> <<>>, out |-> Pending, others |-> FALSE]
Start(a) == app = a /\ inp = Blank(a) /\ out = Pending /\ prev = NoRun

Init == \E a \in {"diesel.py", "bryton.py", "otto.py", "dual.py", "mc.Brayton"} : Start(a)

\* Widgets the current form does not show: the efficiency inputs of the
\* Brayton forms exist only when the cycle type is Actual (bryton.py line
\* 289, mechanical_cycles.py line 59).
Hidden(a, w, f) ==
    \/ a = "bryton.py" /\ w.cycle_type = "Ideal" /\ f \in {"eta_c_input", "eta_t_input"}
    \/ a = "mc.Brayton" /\ w.cycle = "Ideal" /\ f \in {"eta_c", "eta_t"}

\* The widgets after field f was set to v and the script re-ran: a widget
\* whose starting value changed, or which stopped being shown, is back at
\* its starting value.
Rerun(a, w, f, v) ==
    LET w1 == [w EXCEPT ![f] = v]
    IN IF a = "bryton.py" /\ f = "cycle_type"
       THEN [w1 EXCEPT !.T1 = BraytonDefault(v, "T1"), !.T3 = BraytonDefault(v, "T3"),
                       !.eta_c_input = NoneV, !.eta_t_input = NoneV]
       ELSE IF a = "mc.Brayton" /\ f = "cycle"
       THEN [w1 EXCEPT !.eta_c = I(0), !.eta_t = I(0)]
       ELSE w1

\* The user changes one widget; the script re-runs without the button.  A
\* widget with a numeric starting value cannot be emptied (T1 and T3 of the
\* Ideal form of bryton.py).
Edit ==
    /\ \E f \in DOMAIN Dom(app) : \E v \in Dom(app)[f] :
          /\ v # inp[f]
          /\ ~Hidden(app, inp, f)
          /\ ~(app = "bryton.py" /\ inp.cycle_type = "Ideal" /\ f \in {"T1", "T3"}
                 /\ IsNone(v))
          /\ inp' = Rerun(app, inp, f, v)
    /\ out' = Pending
    /\ UNCHANGED <<app, prev>>

\* mechanical_cycles.py main, lines 410-427: another cycle is selected.
SelectCycle ==
    /\ app \in McCycles
    /\ \E a \in McCycles \ {app} : app' = a /\ inp' = Blank(a)
    /\ out' = Pending
    /\ UNCHANGED prev

\* What the handlers pass to the solvers.
\* diesel.py lines 220-228: x if x > 0 else None.
DieselArgs(w) == [f \in DOMAIN w |-> IF Pos(w[f]) THEN w[f] ELSE NoneV]
\* mechanical_cycles.py lines 183-186 and dual.py lines 72-75: x or None.
OrNone(w) == [f \in DOMAIN w |-> IF Truthy(w[f]) THEN w[f] ELSE NoneV]
\* mechanical_cycles.py lines 50-66: T4, P_MW and m_kgph are x or None; the
\* efficiencies are None in the Ideal form and x if x > 0 else None otherwise.
McBraytonArgs(w) ==
    [cycle |-> w.cycle, rp |-> w.rp, T1 |-> w.T1, T3 |-> w.T3,
     T4 |-> IF Truthy(w.T4) THEN w.T4 ELSE NoneV,
     P_MW |-> IF Truthy(w.P_MW) THEN w.P_MW ELSE NoneV,
     m_kgph |-> IF Truthy(w.m_kgph) THEN w.m_kgph ELSE NoneV,
     eta_c |-> IF w.cycle = "Actual" /\ Pos(w.eta_c) THEN w.eta_c ELSE NoneV,
     eta_t |-> IF w.cycle = "Actual" /\ Pos(w.eta_t) THEN w.eta_t ELSE NoneV]

\* The arguments of the solver call the button makes for the widgets shown
\* (bryton.py lines 308-318, otto.py and dual_cycle_app: the values as entered).
ArgsOf(a, w) ==
    CASE a = "diesel.py" -> DieselArgs(w)
      [] a \in {"mc.Diesel", "dual.py"} -> OrNone(w)
      [] a = "mc.Brayton" -> McBraytonArgs(w)
      [] OTHER -> w
Args == ArgsOf(app, inp)

\* The solve button: the solver runs and hands back res.
Solve_SharedResults(res) ==
    /\ out.kind = "pending"
    /\ res.kind # "unrep"
    /\ out' = [res EXCEPT !.log = prev.out.log \o @]
    /\ prev' = IF prev.app = app /\ prev.args # Args THEN [prev EXCEPT !.others = TRUE]
               ELSE prev
    /\ UNCHANGED <<app, inp>>
Solve(res) ==
    /\ out.kind = "pending"
    /\ res.kind # "unrep"
    /\ out' = res
    /\ prev' = IF prev.app = app /\ prev.args # Args THEN [prev EXCEPT !.others = TRUE]
               ELSE prev
    /\ UNCHANGED <<app, inp>>

\* bryton.py lines 305-306: without T1, T3 or the pressure ratio the handler
\* warns and does not call the solver.
BraytonHandler(w) ==
    IF IsNone(w.T1) \/ IsNone(w.T3) \/ IsNone(w.r_p)
    THEN [kind |-> "warning", d |-> EmptyDict, log |-> <<>>, exc |-> "", br |-> <<>>]
    ELSE calculate_brayton_cycle(w)

SolveDiesel == app = "diesel.py" /\ Solve(solve_diesel_cycle(Args))
SolveMcDiesel == app = "mc.Diesel" /\ Solve(mc_solve_diesel_cycle(Args))
SolveBrayton == app = "bryton.py" /\ Solve(BraytonHandler(Args))
SolveMcBrayton == app = "mc.Brayton" /\ Solve(brayton(Args))
SolveOtto == app \in {"otto.py", "mc.Otto"} /\ Solve(otto(Args))
SolveDual == app = "dual.py" /\ Solve(solve_dual_cycle(Args))
SolveMcDual == app = "mc.Dual" /\ Solve(dual_cycle_app(Args))

Next ==
    \/ Edit
    \/ SelectCycle
    \/ SolveDiesel
    \/ SolveMcDiesel
    \/ SolveBrayton
    \/ SolveMcBrayton
    \/ SolveOtto
    \/ SolveDual
    \/ SolveMcDual

Spec == Init /\ [][Next]_vars

\* The Diesel solvers alone (diesel.py and the Diesel page of mechanical_cycles.py).
InitDiesel == Start("diesel.py") \/ Start("mc.Diesel")
NextDiesel ==
    \/ Edit
    \/ SolveDiesel
    \/ SolveMcDiesel
SpecDiesel == InitDiesel /\ [][NextDiesel]_vars

\* The Brayton solvers alone (bryton.py and the Brayton page of mechanical_cycles.py).
InitBrayton == Start("bryton.py") \/ Start("mc.Brayton")
NextBrayton ==
    \/ Edit
    \/ SolveBrayton
    \/ SolveMcBrayton
SpecBrayton == InitBrayton /\ [][NextBrayton]_vars

\* Repeated invocations of the Diesel, Dual and Brayton solvers of one page:
\* a solve made with every field filled in is kept in prev, once, and the
\* user goes on editing and solving.  Of the solves of bryton.py the one kept
\* is that of T1 = 300, T3 = 1200 at 80 % efficiencies.
Remember ==
    /\ out.kind = "dict" /\ prev = NoRun
    /\ \A f \in DOMAIN Args \ {"cycle", "cycle_type"} : Pos(Args[f])
    /\ app = "bryton.py" =>
          /\ Args.T1 = I(300) /\ Args.T3 = I(1200) /\ Args.r_p # I(1)
          /\ Args.eta_c_input = I(80) /\ Args.eta_t_input = I(80)
    /\ prev' = [app |-> app, args |-> Args, out |-> out, others |-> FALSE]
    /\ UNCHANGED <<app, inp, out>>
InitRepeat ==
    \E a \in {"diesel.py", "mc.Diesel", "dual.py", "bryton.py", "mc.Brayton"} : Start(a)
NextRepeat ==
    \/ Edit
    \/ Remember
    \/ SolveDiesel
    \/ SolveMcDiesel
    \/ SolveBrayton
    \/ SolveMcBrayton
    \/ SolveDual
SpecRepeat == InitRepeat /\ [][NextRepeat]_vars

\* The Otto pages on positive inputs, solved in decimal arithmetic.
OttoDecimalDom ==
    [r |-> Ints({1, 8, 32}),
     Qin |-> Ints({359, 800, 1000}),
     T1 |-> Ints({300, 350}),
     P1 |-> Ints({1, 50, 100})]
InitOttoDecimal ==
    /\ app \in {"otto.py", "mc.Otto"}
    /\ inp \in [DOMAIN OttoDecimalDom -> UNION {OttoDecimalDom[f] : f \in DOMAIN OttoDecimalDom}]
    /\ \A f \in DOMAIN inp : inp[f] \in OttoDecimalDom[f]
    /\ out = Pending
    /\ prev = NoRun
SolveOttoDecimal == app \in {"otto.py", "mc.Otto"} /\ Solve(otto_decimal(Args))
SpecOttoDecimal == InitOttoDecimal /\ [][SolveOttoDecimal]_vars

\* The pressure-ratio branch of mechanical_cycles.py in binary64 arithmetic,
\* call by call.  Of a float the branch conditions and the inferred r need
\* only this much: it is None, 0.0, a power of two 2^e, inf, or some other
\* finite value that is not zero.
FNone == [f |-> "none", e |-> 0]
FZero == [f |-> "zero", e |-> 0]
FInf == [f |-> "inf", e |-> 0]
FFinite == [f |-> "finite", e |-> 0]
Pow2(e) == [f |-> "pow2", e |-> e]
FTruthy(x) == x.f \notin {"none", "zero"}

\* Line 134, P3 / P1 on powers of two: exact while the quotient is a binary64
\* value (2^-1074 is the smallest power of two, 2^1023 the largest); a
\* smaller quotient rounds to 0.0 and a larger one to inf.
FloatDiv(x, y) ==
    IF x.e - y.e < -1074 THEN FZero
    ELSE IF x.e - y.e > 1023 THEN FInf
    ELSE Pow2(x.e - y.e)

\* Line 134, ** (1 / k): 0.0 ** x = 0.0, inf ** x = inf, 1.0 ** x = 1.0, and
\* the root of any other power of two is finite and not zero.
FloatRoot(x) == IF x.f = "pow2" /\ x.e # 0 THEN FFinite ELSE x

\* Lines 110, 133, 137 on these floats (0: none).
McDieselFloatBranch(a) ==
    IF FTruthy(a.r) /\ FTruthy(a.T1) /\ FTruthy(a.T3) THEN 1
    ELSE IF FTruthy(a.P3) /\ FTruthy(a.T3) /\ FTruthy(a.P1) /\ FTruthy(a.T1) THEN 2
    ELSE IF FTruthy(a.Qin) /\ FTruthy(a.r) /\ FTruthy(a.P1) /\ FTruthy(a.T1) THEN 3
    ELSE 0

\* The frames CPython allows on its stack before a call raises RecursionError
\* (the default of sys.setrecursionlimit).
RecursionLimit == 1000

\* Arguments of the outermost call: None for an empty widget, else a power
\* of two.
McDieselFloatDom ==
    [r |-> {FNone, Pow2(4)},
     P1 |-> {FNone, Pow2(-600), Pow2(0), Pow2(600)},
     T1 |-> {FNone, Pow2(8)},
     Qin |-> {FNone, Pow2(10)},
     P3 |-> {FNone, Pow2(-600), Pow2(0), Pow2(600)},
     T3 |-> {FNone, Pow2(10)}]
InitMcDieselFloat ==
    /\ app = "mc.Diesel"
    /\ inp \in [DOMAIN McDieselFloatDom ->
                   UNION {McDieselFloatDom[f] : f \in DOMAIN McDieselFloatDom}]
    /\ \A f \in DOMAIN inp : inp[f] \in McDieselFloatDom[f]
    /\ out = Pending
    /\ prev = NoRun

\* The arguments of the call that runs next: those of the handler, or inside
\* a nested call those of line 135 (P1, T1, P3, T3 as received, r inferred).
McDieselFrame ==
    IF out.br = <<>> THEN inp
    ELSE [inp EXCEPT !.r = FloatRoot(FloatDiv(inp.P3, inp.P1)), !.Qin = FNone]

\* Line 135: a call that takes the pressure-ratio branch calls the solver
\* again.
McDieselCall ==
    /\ out.kind \in {"pending", "running"}
    /\ McDieselFloatBranch(McDieselFrame) = 2
    /\ Len(out.br) + 1 < RecursionLimit
    /\ out' = [out EXCEPT !.kind = "running", !.br = Append(@, 2)]
    /\ UNCHANGED <<app, inp, prev>>
\* Lines 135, 162-163: with the stack full the call raises RecursionError,
\* which the try of the calling frame turns into an error result; every
\* frame above hands it on as it is.
McDieselRecursionError ==
    /\ out.kind \in {"pending", "running"}
    /\ McDieselFloatBranch(McDieselFrame) = 2
    /\ Len(out.br) + 1 = RecursionLimit
    /\ out' = Returned(ErrorDict("maximum recursion depth exceeded"), <<>>, Append(out.br, 2))
    /\ UNCHANGED <<app, inp, prev>>
\* Lines 110-131, 137-160: a call that takes another branch, or none,
\* returns; kind "floats" is a result whose numbers are not computed here.
McDieselReturns ==
    /\ out.kind \in {"pending", "running"}
    /\ McDieselFloatBranch(McDieselFrame) # 2
    /\ out' = IF McDieselFloatBranch(McDieselFrame) = 0
              THEN Returned(ErrorDict("Insufficient or inconsistent inputs."), <<>>,
                            Append(out.br, 0))
              ELSE [kind |-> "floats", d |-> EmptyDict, log |-> <<>>, exc |-> "",
                    br |-> Append(out.br, McDieselFloatBranch(McDieselFrame))]
    /\ UNCHANGED <<app, inp, prev>>
NextMcDieselFloat ==
    \/ McDieselCall
    \/ McDieselRecursionError
    \/ McDieselReturns
SpecMcDieselFloat == InitMcDieselFloat /\ [][NextMcDieselFloat]_vars

---------------------------------------------------------------------------
(* Properties.  An input is supplied when the argument the handler passes  *)
(* for it is not None.                                                     *)

Solved == out.kind \in {"dict", "None", "raise"}
HasKey(key) == out.kind = "dict" /\ key \in DOMAIN out.d
Supplied(f) == ~IsNone(Args[f])
SuppliedAll(fs) == \A f \in fs : Supplied(f)
\* An explicit error result: a dictionary that carries an error marker.
IsErrorResult == HasKey("Error") \/ HasKey("error")
\* No argument passed to the solver is zero.
NoZeroArg == \A f \in DOMAIN Args \ {"cycle", "cycle_type"} : ~IsZero(Args[f])
DieselApps == {"diesel.py", "mc.Diesel"}
BraytonApps == {"bryton.py", "mc.Brayton"}

\* The Diesel branches in priority order, each with its prerequisite fields.
DieselPrereqs == <<{"r", "T1", "T3"}, {"P3", "T3", "P1", "T1"}, {"Qin", "r", "P1", "T1"}>>
FirstFullMatch ==
    IF \E i \in 1..Len(DieselPrereqs) : SuppliedAll(DieselPrereqs[i])
    THEN CHOOSE i \in 1..Len(DieselPrereqs) :
            /\ SuppliedAll(DieselPrereqs[i])
            /\ \A j \in 1..(i - 1) : ~SuppliedAll(DieselPrereqs[j])
    ELSE 0

\* C1: a Diesel solve enters exactly the first branch, in the order
\* direct-state (r, T1, T3), pressure-ratio inference (P3, T3, P1, T1),
\* heat-input (Qin, r, P1, T1), whose prerequisites are all supplied, and no
\* branch when none is.  In diesel.py a result that is not an error shows
\* which one ran: only the pressure-ratio branch reports an estimated
\* compression ratio and only the heat-input branch reports T3.  When the direct-state branch runs with
\* P1 supplied, the reported P3 is P1 * r^k, whatever P3 was supplied.
C1_BranchPriority ==
    (app \in DieselApps /\ Solved) =>
        /\ out.br[1] = FirstFullMatch
        /\ (app = "diesel.py" /\ out.kind = "dict" /\ ~HasKey("Error")) =>
              /\ HasKey("Estimated Compression Ratio (r)") <=> FirstFullMatch = 2
              /\ HasKey("T3 [K]") <=> FirstFullMatch = 3
        /\ (FirstFullMatch = 1 /\ Supplied("P1") /\ HasKey("P3 [kPa]")) =>
              out.d["P3 [kPa]"] = Mul(Args.P1, PowQ(Args.r, kNum, kDen))

\* A Diesel solve has run with r, T1, T3, P1 and P3 all supplied; it took
\* the direct-state branch and reports a P3 other than the supplied one.
C1_Witness ==
    /\ app \in DieselApps /\ Solved
    /\ SuppliedAll({"r", "T1", "T3", "P1", "P3"})
    /\ out.br[1] = 1
    /\ HasKey("P3 [kPa]") /\ out.d["P3 [kPa]"] # Args.P3

\* C2: when no branch of solve_diesel_cycle (diesel.py) has all its
\* prerequisites, the call returns an error dictionary that carries nothing else.
C2_InsufficientIsError ==
    (app = "diesel.py" /\ Solved /\ FirstFullMatch = 0)
        => (out.kind = "dict" /\ DOMAIN out.d = {"Error"})

\* C3: with heat added supplied as 0 and the heat-input branch applicable
\* (Otto: r, T1, P1 positive; Diesel: r, P1, T1 positive, T3 absent), the
\* solve returns an error result and nothing else: no fault escapes and no
\* result that reports an efficiency is returned.
C3_HeatInputCase ==
    /\ IsZero(Args.Qin)
    /\ Pos(Args.r) /\ Pos(Args.T1) /\ Pos(Args.P1)
    /\ app \in DieselApps => ~Supplied("T3")
C3_ZeroHeatIsDegenerate ==
    (app \in DieselApps \cup {"otto.py", "mc.Otto"} /\ Solved /\ C3_HeatInputCase)
        => (IsErrorResult /\ DOMAIN out.d \in {{"Error"}, {"error"}})

\* Keys of calculate_brayton_cycle's result that hold computed quantities.
BraytonComputed ==
    {"T2s", "T4s", "T2a", "T4a", "w_c_s", "w_t_s", "w_c_a", "w_t_a", "w_net", "q_in", "q_out",
     "thermal_efficiency", "calculated_eta_c", "calculated_eta_t", "derived_w_net",
     "derived_T2a", "mass_flow_kgs", "mass_flow_kgph", "net_power_kW", "net_power_MW"}

\* C4: a result of calculate_brayton_cycle that carries the error marker
\* carries no computed quantity (stated for arguments that are all non-zero).
C4_ErrorDiscardsPartial ==
    (app = "bryton.py" /\ NoZeroArg /\ HasKey("error"))
        => DOMAIN out.d \cap BraytonComputed = {}

\* C5: no arithmetic fault escapes the Otto, Dual or Brayton solve step.
C5_NoUncaughtFault ==
    (app \notin DieselApps) => out.kind # "raise"

\* C6: a compressor efficiency supplied as 0 to an Actual solve of
\* calculate_brayton_cycle that has positive T1, T3 and pressure ratio yields
\* an error result.
C6_Case ==
    /\ app = "bryton.py" /\ Args.cycle_type = "Actual"
    /\ Pos(Args.T1) /\ Pos(Args.T3) /\ Pos(Args.r_p)
    /\ IsZero(Args.eta_c_input) /\ Pos(Args.eta_t_input)
C6_NonPositiveEfficiencyIsError ==
    (Solved /\ C6_Case) => IsErrorResult

\* The keys under which each solver reports efficiency, net work and heat input.
EffKeys(a) ==
    CASE a = "bryton.py" -> <<"thermal_efficiency", "w_net", "q_in">>
      [] a = "mc.Brayton" -> <<"eff", "w_net", "q_in">>
      [] a = "diesel.py" ->
            <<"Efficiency [%]", "Net Work [kJ/kg]", "Heat Added Q_in [kJ/kg]">>
      [] a \in {"mc.Diesel", "dual.py"} ->
            <<"Efficiency [%]", "Net Work [kJ/kg]", "Heat Added [kJ/kg]">>
      [] a = "mc.Dual" -> <<"Efficiency", "Net Work", "Heat Added">>
      [] OTHER -> <<"Efficiency", "Work Output", "Heat Added">>

\* C7: when the heat input computed from non-zero arguments is zero, so that
\* the efficiency ratio has a zero denominator, the result is an error result
\* (calculate_brayton_cycle and diesel.py's solve_diesel_cycle).
C7_ZeroDenominatorIsError ==
    LET ks == EffKeys(app)
    IN (app \in {"bryton.py", "diesel.py"} /\ NoZeroArg
          /\ HasKey(ks[3]) /\ IsZero(out.d[ks[3]]))
          => IsErrorResult

\* C8: within one Brayton solve on non-zero arguments no quantity of the
\* result is assigned twice.
C8_WriteOnce ==
    (app \in BraytonApps /\ NoZeroArg)
        => \A i, j \in 1..Len(out.log) :
              (i < j /\ out.log[i].k # "error") => out.log[i].k # out.log[j].k

\* C9: a result, computed from non-zero arguments, that reports efficiency,
\* net work and a non-zero heat input has efficiency = 100 * net work / heat
\* input.
C9_EfficiencyConsistent ==
    LET ks == EffKeys(app)
    IN (NoZeroArg /\ HasKey(ks[1]) /\ HasKey(ks[2]) /\ HasKey(ks[3])
          /\ ~IsZero(out.d[ks[3]]))
          => out.d[ks[1]] = Mul(Div(out.d[ks[2]], out.d[ks[3]]), I(100))

\* The quantities a Brayton solver computes, under the solver's own key names.
BraytonQuantities(a) ==
    IF a = "bryton.py"
    THEN {"T2s", "T4s", "T2a", "T4a", "w_c_s", "w_t_s", "w_c_a", "w_t_a", "w_net", "q_in",
          "q_out", "thermal_efficiency"}
    ELSE {"T2s", "T4s", "T2a", "T4a", "w_c", "w_t", "w_net", "q_in", "q_out", "eff"}

\* Two results agree on a set of keys: same outcome, and each key is in both
\* or in neither, with the same value.
SameOn(keys, r1, r2) ==
    /\ r1.kind = r2.kind
    /\ r1.exc = r2.exc
    /\ \A key \in keys :
          /\ key \in DOMAIN r1.d <=> key \in DOMAIN r2.d
          /\ key \in DOMAIN r1.d => r1.d[key] = r2.d[key]

\* The solver is called for an Actual Brayton case with both efficiencies
\* 100 % and T1, T3 and the pressure ratio present.
C10_Case ==
    \/ /\ app = "bryton.py" /\ Args.cycle_type = "Actual"
       /\ SuppliedAll({"T1", "T3", "r_p"})
       /\ Args.eta_c_input = I(100) /\ Args.eta_t_input = I(100)
    \/ /\ app = "mc.Brayton" /\ Args.cycle = "Actual"
       /\ Args.eta_c = I(100) /\ Args.eta_t = I(100)

\* What the solver returns for the same arguments with the cycle set to
\* Ideal, the efficiencies kept as entered (keepEta) or left out.
IdealResult(keepEta) ==
    IF app = "bryton.py"
    THEN calculate_brayton_cycle(
            [Args EXCEPT !.cycle_type = "Ideal",
                         !.eta_c_input = IF keepEta THEN @ ELSE NoneV,
                         !.eta_t_input = IF keepEta THEN @ ELSE NoneV])
    ELSE brayton([Args EXCEPT !.cycle = "Ideal",
                              !.eta_c = IF keepEta THEN @ ELSE NoneV,
                              !.eta_t = IF keepEta THEN @ ELSE NoneV])

\* C10: an Actual Brayton solve with both efficiencies 100 % and T1, T3 and
\* the pressure ratio present gives, for every computed quantity (T2s, T4s,
\* T2a, T4a, the works, q_in, q_out, thermal efficiency), the value the Ideal
\* solve gives on the same remaining inputs.
C10_ActualAtFullEfficiencyIsIdeal ==
    (app \in BraytonApps /\ Solved /\ C10_Case)
        => \A keepEta \in BOOLEAN : SameOn(BraytonQuantities(app), out, IdealResult(keepEta))

\* An Actual solve of calculate_brayton_cycle at 100 % efficiencies has run on
\* T1 = 1, T3 = 18 and a pressure ratio above 1, and reports a compressor exit
\* temperature above T1 and a thermal efficiency.
C10_Witness ==
    /\ app = "bryton.py" /\ Solved /\ C10_Case
    /\ Args.T1 = I(1) /\ Args.T3 = I(18) /\ Args.r_p = I(MaxBase^kNum)
    /\ HasKey("T2a") /\ out.d["T2a"] = I(MaxBase^(kNum - kDen))
    /\ HasKey("thermal_efficiency")

C12_Ratio ==
    IF HasKey("Estimated Compression Ratio (r)")
    THEN out.d["Estimated Compression Ratio (r)"]
    ELSE PowQ(Div(Args.P3, Args.P1), kDen, kNum)
C12_Again ==
    IF app = "diesel.py" THEN solve_diesel_cycle([Args EXCEPT !.r = C12_Ratio])
    ELSE mc_solve_diesel_cycle([Args EXCEPT !.r = C12_Ratio])

\* C12: Diesel round trip.  When P1, P3, T1 and T3 are supplied and r is
\* not, the solve goes through the pressure-ratio branch; solving the same
\* inputs again with r set to the ratio that branch inferred goes through the
\* direct-state branch and reports the same T2, T4 and efficiency.
C12_RoundTrip ==
    (app \in DieselApps /\ Solved /\ FirstFullMatch = 2) =>
        /\ out.br[1] = 2
        /\ C12_Again.kind = "dict" /\ C12_Again.br = <<1>>
        /\ \A key \in {"T2 [K]", "T4 [K]", "Efficiency [%]"} :
              /\ HasKey(key) /\ key \in DOMAIN C12_Again.d
              /\ out.d[key] = C12_Again.d[key]

\* diesel.py has solved P1 = 1, T1 = 1 with P3 and T3 above 1 through the
\* pressure-ratio branch: the inferred ratio is above 1, T2 is above T1, and
\* the direct-state solve with that ratio reports T4 and the efficiency.
C12_Witness ==
    /\ app = "diesel.py" /\ Solved /\ FirstFullMatch = 2 /\ out.br[1] = 2
    /\ Args.P3 = I(MaxBase^kNum) /\ Args.T3 = I(MaxBase^kNum)
    /\ C12_Ratio = I(MaxBase^kDen)
    /\ HasKey("T2 [K]") /\ out.d["T2 [K]"] = I(MaxBase^(kNum - kDen))
    /\ C12_Again.br = <<1>> /\ {"T4 [K]", "Efficiency [%]"} \subseteq DOMAIN C12_Again.d

\* Net power [MW] over mass flow [kg/h], in kJ/kg.
C13_PowerOverFlow ==
    IF app = "bryton.py"
    THEN Div(Mul(Args.net_power_MW, I(1000)), Div(Args.mass_flow_kgph, I(3600)))
    ELSE Div(Mul(Args.P_MW, I(1000)), Div(Args.m_kgph, I(3600)))

\* C13: when net power and mass flow are both supplied to a Brayton solve
\* (no argument zero), the w_net of the result is net power over mass flow,
\* and a compressor efficiency reported as calculated is the isentropic
\* compressor work over the compressor work left by that net work,
\* (T2s - T1) * cp / (w_t - w_net), in percent.
C13_PowerDerivedWork ==
    (app \in BraytonApps /\ out.kind = "dict" /\ NoZeroArg
       /\ SuppliedAll(IF app = "bryton.py" THEN {"net_power_MW", "mass_flow_kgph"}
                      ELSE {"P_MW", "m_kgph"}))
    => /\ HasKey("w_net") /\ out.d["w_net"] = C13_PowerOverFlow
       /\ (app = "bryton.py" /\ HasKey("calculated_eta_c")) =>
             out.d["calculated_eta_c"] =
                Mul(Div(Mul(cp, Sub(out.d["T2s"], Args.T1)),
                        Sub(out.d["w_t_a"], C13_PowerOverFlow)), I(100))

\* The names under which each Brayton solver takes the actual exhaust
\* temperature and the efficiencies and reports the efficiencies it calculated.
C14_Names ==
    IF app = "bryton.py"
    THEN [T4 |-> "T4_actual", ec |-> "eta_c_input", et |-> "eta_t_input",
          calc_c |-> "calculated_eta_c", calc_t |-> "calculated_eta_t"]
    ELSE [T4 |-> "T4", ec |-> "eta_c", et |-> "eta_t", calc_c |-> "eta_c", calc_t |-> "eta_t"]
\* An Actual Brayton solve on non-zero arguments returned both isentropic
\* temperatures.
C14_Case ==
    /\ app \in BraytonApps /\ out.kind = "dict" /\ NoZeroArg
    /\ "Actual" \in {Args[f] : f \in DOMAIN Args \cap {"cycle", "cycle_type"}}
    /\ HasKey("T2s") /\ HasKey("T4s")
\* The actual compressor exit temperature the result is built on.
C14_T2a == IF HasKey("derived_T2a") THEN out.d["derived_T2a"] ELSE out.d["T2a"]
\* The compressor efficiency is absent and the actual temperature rise is
\* known and not zero: the calculated compressor efficiency is reported and
\* is the isentropic rise over the actual rise, in percent.
C14_Compressor ==
    (~Supplied(C14_Names.ec) /\ HasKey("T2a") /\ C14_T2a # Args.T1) =>
        /\ HasKey(C14_Names.calc_c)
        /\ out.d[C14_Names.calc_c] =
              Mul(Div(Sub(out.d["T2s"], Args.T1), Sub(C14_T2a, Args.T1)), I(100))
\* The turbine efficiency is absent, T4 is supplied and neither temperature
\* fall is zero: the calculated turbine efficiency is reported and is the
\* isentropic fall over the actual fall (isentropicOverActual) or the actual
\* fall over the isentropic fall, in percent.
C14_Turbine(isentropicOverActual) ==
    LET actual == Sub(Args.T3, Args[C14_Names.T4])
        isentropic == Sub(Args.T3, out.d["T4s"])
    IN (~Supplied(C14_Names.et) /\ Supplied(C14_Names.T4)
          /\ ~IsZero(actual) /\ ~IsZero(isentropic)) =>
          /\ HasKey(C14_Names.calc_t)
          /\ out.d[C14_Names.calc_t] =
                Mul(IF isentropicOverActual THEN Div(isentropic, actual)
                    ELSE Div(actual, isentropic), I(100))

C15_OneSourceOfTruth ==
    LET n == C14_Names
    IN C14_Case =>
        /\ Supplied(n.ec) =>
              /\ IF app = "bryton.py" THEN ~HasKey(n.calc_c)
                 ELSE out.d[n.calc_c] = Args[n.ec]
              /\ HasKey("T2a") =>
                    out.d["T2a"] = Add(Args.T1, Div(Sub(out.d["T2s"], Args.T1),
                                                    Div(Args[n.ec], I(100))))
        /\ Supplied(n.et) =>
              /\ IF app = "bryton.py" THEN ~HasKey(n.calc_t)
                 ELSE out.d[n.calc_t] = Args[n.et]
              /\ HasKey("T4a") =>
                    out.d["T4a"] = Sub(Args.T3, Mul(Sub(Args.T3, out.d["T4s"]),
                                                    Div(Args[n.et], I(100))))

\* C16: a field supplied as zero is present.  In every solve, a numeric field
\* whose widget holds 0 reaches the solver as the number 0, never as None
\* (the value of a field that was not provided).
C16_ZeroIsPresent ==
    Solved => \A f \in DOMAIN inp \ {"cycle", "cycle_type"} :
                 IsZero(inp[f]) => (f \in DOMAIN Args /\ IsZero(Args[f]))

\* C17: no default stands in for a missing efficiency.  In an Actual Brayton
\* solve on non-zero arguments, when the compressor efficiency is absent and
\* net power and mass flow, from which it could be derived, are not both
\* supplied, the result holds no T2a, compressor work, w_net, q_in or thermal
\* efficiency; when the turbine efficiency and the actual exhaust temperature
\* T4 are both absent, it holds no T4a, turbine work, w_net or thermal
\* efficiency.
C17_NoDefaultEfficiency ==
    LET n == C14_Names
        power == IF app = "bryton.py" THEN {"net_power_MW", "mass_flow_kgph"}
                 ELSE {"P_MW", "m_kgph"}
        eff == IF app = "bryton.py" THEN "thermal_efficiency" ELSE "eff"
    IN C14_Case =>
        /\ (~Supplied(n.ec) /\ ~SuppliedAll(power)) =>
              DOMAIN out.d \cap {"T2a", "w_c_a", "w_c", "w_net", "q_in", eff} = {}
        /\ (~Supplied(n.et) /\ ~Supplied(n.T4)) =>
              DOMAIN out.d \cap {"T4a", "w_t_a", "w_t", "w_net", eff} = {}

\* C18: a Diesel solve that entered one of the three branches and returned
\* without an error reports T2, T4, P4, the cutoff ratio, heat added, heat
\* rejected, net work and efficiency.
C18_BranchResultComplete ==
    (app \in DieselApps /\ out.kind = "dict" /\ ~IsErrorResult /\ out.br[1] \in 1..3)
    => ({"T2 [K]", "T4 [K]", "P4 [kPa]", "Cutoff Ratio (rc)", "Net Work [kJ/kg]",
         "Efficiency [%]"} \subseteq DOMAIN out.d
        /\ IF app = "diesel.py"
           THEN {"Heat Added Q_in [kJ/kg]", "Heat Rejected Q_out [kJ/kg]"}
                   \subseteq DOMAIN out.d
           ELSE {"Heat Added [kJ/kg]", "Heat Rejected [kJ/kg]"} \subseteq DOMAIN out.d)

\* What the Brayton solver returns for T1, T3 and the pressure ratio of the
\* current arguments alone, as an Ideal cycle.
C19_Baseline ==
    IF app = "bryton.py"
    THEN calculate_brayton_cycle(
            [Args EXCEPT !.cycle_type = "Ideal", !.T4_actual = NoneV,
                         !.eta_c_input = NoneV, !.eta_t_input = NoneV,
                         !.net_power_MW = NoneV, !.mass_flow_kgph = NoneV])
    ELSE brayton([Args EXCEPT !.cycle = "Ideal", !.T4 = NoneV, !.eta_c = NoneV,
                              !.eta_t = NoneV, !.P_MW = NoneV, !.m_kgph = NoneV])

\* C19: an Ideal Brayton solve with T1, T3 and the pressure ratio present
\* (none of them zero) reports T2a = T2s and T4a = T4s, and every computed
\* temperature, work and heat is what the solve of T1, T3 and the pressure
\* ratio alone reports, whatever T4, net power or mass flow is supplied.
C19_IdealIgnoresTheRest ==
    (app \in BraytonApps /\ Solved /\ NoZeroArg
       /\ "Ideal" \in {Args[f] : f \in DOMAIN Args \cap {"cycle", "cycle_type"}})
    => /\ out.kind = "dict"
       /\ {"T2s", "T4s", "T2a", "T4a"} \subseteq DOMAIN out.d
       /\ out.d["T2a"] = out.d["T2s"] /\ out.d["T4a"] = out.d["T4s"]
       /\ SameOn(BraytonQuantities(app), out, C19_Baseline)


---------------------------------------------------------------------------
(* C20: the Otto scenario r = 8, T1 = 300 K, Qin = 800 kJ/kg.              *)

C20_Scenario ==
    /\ app \in {"otto.py", "mc.Otto"} /\ out.kind = "dict"
    /\ Args.r = I(8) /\ Args.T1 = I(300) /\ Args.Qin = I(800) /\ Pos(Args.P1)
\* The metric under key lies within tol of v, both in units of 1/Unit.
C20_Within(key, v, tol) ==
    /\ key \in DOMAIN out.d
    /\ v - tol <= out.d[key].lo /\ out.d[key].hi <= v + tol

\* C20 as stated: in the scenario the Otto solver yields T2 = 689.2,
\* T3 = 1803.6 and T4 = 785.3 (each to its last decimal), efficiency 56.47
\* (within 0.01) and net work about 451.7 (within 0.1).
C20_AsStated ==
    C20_Scenario =>
        /\ C20_Within("T2", 6892000, 500)
        /\ C20_Within("T3", 18036000, 500)
        /\ C20_Within("T4", 7853000, 500)
        /\ C20_Within("Efficiency", 564700, 100)
        /\ C20_Within("Work Output", 4517000, 1000)

\* C20 amended: in the scenario, for every positive P1, the Otto solver
\* yields T2 = 689.2, T3 = 1803.4, T4 = 785.0 and net work 451.8, each to one
\* decimal place, and efficiency 56.47 to within 0.01.
C20_OttoScenario ==
    C20_Scenario =>
        /\ C20_Within("T2", 6892000, 500)
        /\ C20_Within("T3", 18034000, 500)
        /\ C20_Within("T4", 7850000, 500)
        /\ C20_Within("Efficiency", 564700, 100)
        /\ C20_Within("Work Output", 4518000, 500)
C20_Witness == C20_Scenario /\ app = "mc.Otto" /\ Args.P1 = I(50)

---------------------------------------------------------------------------
\* C21: when no branch condition is satisfied, solve_dual_cycle (dual.py)
\* and the Diesel solver of mechanical_cycles.py return exactly
\* {"Error": "Insufficient or inconsistent inputs."}; and whatever the
\* inputs, what they return is a dictionary that is not empty.
C21_NoBranch ==
    \/ app = "dual.py" /\ ~SuppliedAll({"r", "rc", "rp", "T1"})
    \/ app = "mc.Diesel" /\ FirstFullMatch = 0
C21_InsufficientInputs ==
    /\ (Solved /\ C21_NoBranch)
          => /\ out.kind = "dict"
             /\ out.d = ErrorDict("Insufficient or inconsistent inputs.")
    /\ (Solved /\ app \in {"dual.py", "mc.Diesel"})
          => (out.kind = "dict" /\ DOMAIN out.d # {})
C21_Witness ==
    /\ app = "mc.Diesel" /\ Solved /\ C21_NoBranch
    /\ SuppliedAll({"r", "T1", "P3"})

---------------------------------------------------------------------------
\* C22: in solve_diesel_cycle (diesel.py), when the heat-input branch is
\* selected (Qin, r, P1 and T1 supplied, T3 not) and V1 is supplied too, the
\* result contains the total volumes V1, V2 and V3, the total net work, the
\* total heat added and the total heat rejected.
C22_HeatInputTotals ==
    (app = "diesel.py" /\ Solved /\ SuppliedAll({"Qin", "r", "P1", "T1", "V1"})
       /\ ~Supplied("T3"))
    => /\ out.kind = "dict"
       /\ {"Total Volume V1 [L]", "Total Volume V2 [L]", "Total Volume V3 [L]",
           "Total Net Work [kJ]", "Total Heat Added Q_in [kJ]",
           "Total Heat Rejected Q_out [kJ]"} \subseteq DOMAIN out.d

---------------------------------------------------------------------------
\* C23: in solve_diesel_cycle (diesel.py) and solve_dual_cycle (dual.py) an
\* exception raised inside the try block gives a result with exactly one key,
\* "Error": what was written to the result before it is discarded, and no
\* exception reaches the caller.
C23_Run ==
    IF app = "diesel.py"
    THEN Exec(DieselStmts(DieselBranch(Args)), Started(DieselEnv(Args)))
    ELSE Exec(DualStmts(DualBranch(Args)), Started(DualEnv(Args)))
C23_ExceptionGivesOnlyError ==
    (app \in {"diesel.py", "dual.py"} /\ Solved)
    => /\ out.kind # "raise"
       /\ C23_Run.caught # "" => (out.kind = "dict" /\ DOMAIN out.d = {"Error"})
C23_Witness ==
    /\ app = "diesel.py" /\ Solved /\ C23_Run.caught # ""
    /\ \E i \in 1..Len(out.log) : out.log[i].k = "T2 [K]"

---------------------------------------------------------------------------
\* C24: solve_diesel_cycle (diesel.py) reads a supplied V1 by what else is
\* supplied.  With P1 and T1 it is a total volume: the result reports the
\* specific volume R * T1 / P1 and the mass V1 / v1.  Without P1 or without
\* T1 it is the specific volume: the result carries the note saying so, and
\* neither a mass nor a total quantity.
C24_Totals ==
    {"Total Volume V1 [L]", "Total Volume V2 [L]", "Total Volume V3 [L]",
     "Total Net Work [kJ]", "Total Heat Added Q_in [kJ]", "Total Heat Rejected Q_out [kJ]"}
C24_AsTotal ==
    /\ out.kind = "dict"
    /\ {"v1 [L/kg]", "Calculated Mass [kg]"} \subseteq DOMAIN out.d
    /\ out.d["v1 [L/kg]"] = Mul(Div(Mul(R, Args.T1), Args.P1), I(1000))
    /\ out.d["Calculated Mass [kg]"]
          = Div(Div(Args.V1, I(1000)), Div(Mul(R, Args.T1), Args.P1))
C24_AsSpecific ==
    /\ out.kind = "dict"
    /\ {"v1 [L/kg]", "Note: V1 treated as specific volume [L/kg]"} \subseteq DOMAIN out.d
    /\ out.d["v1 [L/kg]"] = Args.V1
    /\ DOMAIN out.d \cap ({"Calculated Mass [kg]"} \cup C24_Totals) = {}
C24_VolumeInterpretation ==
    (app = "diesel.py" /\ Solved /\ Supplied("V1"))
    => IF SuppliedAll({"P1", "T1"}) THEN C24_AsTotal ELSE C24_AsSpecific

---------------------------------------------------------------------------
\* C25: in calculate_brayton_cycle, when the specific net work is known and
\* exactly one of net power and mass flow is supplied, the other is reported
\* in both units: mass flow = net power [kW] / w_net as mass_flow_kgs and
\* mass_flow_kgph, or net power = w_net * mass flow as net_power_kW and
\* net_power_MW.  With net power alone and w_net = 0 the error is "Cannot
\* calculate mass flow rate: Net work is zero." and no mass flow is reported.
C25_Case(given, other) ==
    /\ app = "bryton.py" /\ HasKey("w_net")
    /\ Supplied(given) /\ ~Supplied(other)
C25_MassFlow ==
    IF out.d["w_net"] = I(0)
    THEN /\ HasKey("error")
         /\ out.d["error"] = StrV("Cannot calculate mass flow rate: Net work is zero.")
         /\ DOMAIN out.d \cap {"mass_flow_kgs", "mass_flow_kgph"} = {}
    ELSE /\ {"mass_flow_kgs", "mass_flow_kgph"} \subseteq DOMAIN out.d
         /\ out.d["mass_flow_kgs"] = Div(Mul(Args.net_power_MW, I(1000)), out.d["w_net"])
         /\ out.d["mass_flow_kgph"] = Mul(out.d["mass_flow_kgs"], I(3600))
C25_NetPower ==
    /\ {"net_power_kW", "net_power_MW"} \subseteq DOMAIN out.d
    /\ out.d["net_power_kW"] = Mul(out.d["w_net"], Div(Args.mass_flow_kgph, I(3600)))
    /\ out.d["net_power_MW"] = Div(out.d["net_power_kW"], I(1000))
C25_PowerAndMassFlow ==
    /\ C25_Case("net_power_MW", "mass_flow_kgph") => C25_MassFlow
    /\ C25_Case("mass_flow_kgph", "net_power_MW") => C25_NetPower


---------------------------------------------------------------------------
\* C26: the Diesel solver of mechanical_cycles.py makes at most one nested
\* call: no solve enters more than two calls of the solver, and a solve that
\* enters two took the pressure-ratio branch in the first and the
\* direct-state branch in the second.
C26_OneNestedCall ==
    app = "mc.Diesel"
    => /\ Len(out.br) <= 2
       /\ Len(out.br) = 2 => out.br = <<2, 1>>


---------------------------------------------------------------------------
\* C27: a dictionary returned by calculate_brayton_cycle holds no None
\* value, and it has the key 'error' exactly when the solve assigned an
\* error message (a failure was detected); the message is a non-empty
\* string, so the caller's results.get('error') tells the two cases apart.
C27_ErrorWritten == \E i \in 1..Len(out.log) : out.log[i].k = "error"
C27_ErrorKeyIffFailure ==
    (app = "bryton.py" /\ out.kind = "dict")
    => /\ \A key \in DOMAIN out.d : ~IsNone(out.d[key])
       /\ HasKey("error") <=> C27_ErrorWritten
       /\ HasKey("error") => (out.d["error"].t = "str" /\ out.d["error"].s # "")
C27_Witness ==
    /\ app = "bryton.py" /\ out.kind = "dict"
    /\ HasKey("error") /\ HasKey("T2s") /\ Args.cycle_type = "Actual"
C27_WitnessNoError ==
    /\ app = "bryton.py" /\ out.kind = "dict"
    /\ ~HasKey("error") /\ HasKey("thermal_efficiency")


---------------------------------------------------------------------------
\* C28: energy balance.  A result of a Brayton, Diesel or Dual solver that
\* reports the net specific work, the heat added and the heat rejected has
\* net work = heat added - heat rejected, the solves of the Brayton solvers
\* that take the power / mass-flow step included.
C28_Keys ==
    CASE app \in BraytonApps -> <<"w_net", "q_in", "q_out">>
      [] app = "diesel.py" -> <<"Net Work [kJ/kg]", "Heat Added Q_in [kJ/kg]",
                                "Heat Rejected Q_out [kJ/kg]">>
      [] OTHER -> <<"Net Work [kJ/kg]", "Heat Added [kJ/kg]", "Heat Rejected [kJ/kg]">>
C28_Reported ==
    /\ app \in BraytonApps \cup DieselApps \cup {"dual.py"}
    /\ out.kind = "dict"
    /\ {C28_Keys[i] : i \in 1..3} \subseteq DOMAIN out.d
C28_EnergyBalance ==
    C28_Reported => out.d[C28_Keys[1]] = Sub(out.d[C28_Keys[2]], out.d[C28_Keys[3]])
C28_Witness ==
    /\ C28_Reported /\ app = "mc.Brayton"
    /\ SuppliedAll({"P_MW", "m_kgph"})
    /\ out.d["w_net"] # I(0)


---------------------------------------------------------------------------
\* C29: constant-pressure heat addition.  A result of a Diesel solver that
\* reports both 'P2 [kPa]' and 'P3 [kPa]' reports the same value for them,
\* and the specific volume v3 of that solve, when computed, is R * T3 divided
\* by that pressure.
C29_Locals ==
    IF app = "diesel.py"
    THEN Exec(DieselStmts(DieselBranch(Args)), Started(DieselEnv(Args))).env
    ELSE IF McDieselBranch(Args) # 2
    THEN Exec(McDieselStmts(McDieselBranch(Args)), Started(McDieselEnv(Args))).env
    ELSE Exec(McDieselStmts(1),
              Started(McDieselEnv(McDieselNested(
                  Exec(McDieselStmts(2), Started(McDieselEnv(Args))).env)))).env
C29_V3 == IF app = "diesel.py" THEN "v3_specific" ELSE "v3"
C29_BothReported ==
    /\ app \in DieselApps /\ out.kind = "dict"
    /\ {"P2 [kPa]", "P3 [kPa]"} \subseteq DOMAIN out.d
C29_ConstantPressure ==
    C29_BothReported
    => /\ out.d["P2 [kPa]"] = out.d["P3 [kPa]"]
       /\ (C29_V3 \in DOMAIN C29_Locals /\ ~IsNone(C29_Locals[C29_V3]))
             => C29_Locals[C29_V3] = Div(Mul(R, C29_Locals["T3"]), out.d["P3 [kPa]"])
C29_Witness ==
    /\ C29_BothReported /\ app = "mc.Diesel" /\ out.br = <<2, 1>>
    /\ C29_V3 \in DOMAIN C29_Locals
    /\ Args.P3 # Args.P1


---------------------------------------------------------------------------
\* C30: in calculate_brayton_cycle a solve that computes both q_in and q_out
\* has computed w_net before them, as w_t_a - w_c_a; and thermal_efficiency
\* is never assigned without w_net having been assigned before it, so the
\* formula 1 - q_out / q_in is never the one that produces it.
C30_At(key) == {i \in 1..Len(out.log) : out.log[i].k = key}
C30_Before(key, other) ==
    \A i \in C30_At(other) : \E j \in C30_At(key) : j < i
C30_NetWorkBeforeHeat ==
    (app = "bryton.py" /\ Solved)
    => /\ (C30_At("q_in") # {} /\ C30_At("q_out") # {})
             => /\ C30_Before("w_net", "q_in")
                /\ C30_Before("w_net", "q_out")
                /\ \A i \in C30_At("w_net") : \A j \in C30_At("q_in") :
                      i < j => /\ C30_At("w_t_a") # {} /\ C30_At("w_c_a") # {}
                               /\ \A t \in C30_At("w_t_a") : \A c \in C30_At("w_c_a") :
                                     out.log[i].v = Sub(out.log[t].v, out.log[c].v)
       /\ C30_Before("w_net", "thermal_efficiency")
       /\ \A e \in C30_At("thermal_efficiency") :
             \A i \in C30_At("w_net") : \A j \in C30_At("q_in") :
                out.log[e].v = Mul(Div(out.log[i].v, out.log[j].v), I(100))
C30_Witness ==
    /\ app = "bryton.py" /\ out.kind = "dict"
    /\ C30_At("q_in") # {} /\ C30_At("q_out") # {} /\ C30_At("thermal_efficiency") # {}
    /\ Args.cycle_type = "Actual" /\ Supplied("T4_actual")
    /\ SuppliedAll({"net_power_MW", "mass_flow_kgph"})

=============================================================================
